---- MODULE Spec2Model ----
(***************************************************************************)
(* Physical exercise guidance: the rep-counting state machine, the         *)
(* feedback rule matcher, the 17-to-33 keypoint normalisation of the YOLO  *)
(* backend and the per-frame pipeline of CameraThread.                     *)
(*                                                                         *)
(* Angles are whole degrees (every threshold of the registry is a whole    *)
(* number of degrees). Visibilities are tenths (0.6 is 6).                 *)
(***************************************************************************)
EXTENDS Integers, Sequences, FiniteSets, TLC

VARIABLES
    rc,         \* the RepCounter under test (unit harness)
    rcPrev,     \* that counter as it was before the last call on it
    rcAngle,    \* the argument of the last update() call
    rcRet,      \* the value the last update() call returned
    rcOp,       \* the last call on rc: "new", "update" or "reset"
    twin,       \* the last call's result on a counter constructed afresh when rc was
                \* last constructed or reset, and fed the same angles since
    fed,        \* history: [deadband: every angle since rc was last fresh lay in
                \* [down_max, up_min]; resetFrom: the state the last reset() found]
    samples,    \* the angles fed to rc since its construction (sequence harness)
    fb,         \* the last get_feedback call: [exercise, angle, rule]
    yolo,       \* the last YOLODetector.detect call: [shape, keypoints, out]
    running,    \* CameraThread._running
    exercise,   \* CameraThread._exercise
    counter,    \* CameraThread._counter
    worker,     \* the thread of run(): "running", "finished" or "crashed" (left by
                \* an exception nothing caught)
    step,       \* the last step taken: "start", "frame", "set_exercise", "reset_reps",
                \* "stop" or "exit"
    frame,      \* the frame the last step processed: what detection finds in it and
                \* which call raises while it is processed (NoFrame after a command)
    calls,      \* the calls _process_frame made for that frame
    before,     \* _counter as it was before the last step
    signals,    \* the signals the last step emitted, in order
    runStart,   \* _counter as it was when the present run of no-pose frames began
    e2e,        \* the (reps, state) emitted for the frames since set_exercise(0), while
                \* those frames give the angles 180, 95, 170 in turn
    _running,   \* CameraThread._running (interleaving model)
    _exercise,  \* CameraThread._exercise
    _counter,   \* CameraThread._counter: a reference, the index in counters of the
                \* instance it points to
    _detector,  \* CameraThread._detector: "open", or "closed" once close() ran
    counters,   \* the RepCounter instances constructed so far, in order
    pc,         \* where the worker thread stands in run() / _process_frame
    loc,        \* the locals of the worker: landmarks, ex, angle, the counter
                \* reference update() was called on
    cpc,        \* where the consumer thread stands: "idle", or inside set_exercise,
                \* reset_reps or stop, between their two statements
    budget,     \* the frames read and the commands called so far
    obs,        \* history of the present iteration: the exercise whose joints were
                \* measured, the instance updated, the instances whose reps and
                \* state were emitted, and stale: reset_reps() was called on the
                \* instance while the body of update's second if was still to run
    writers,    \* history: the (instance, thread) pairs of the writes made to the
                \* reps and state fields after construction
    notified,   \* history: the payloads of the state_changed signals emitted
    _thread,    \* MainWindow._thread: the index in threads of the CameraThread, 0: None
    threads,    \* the CameraThread objects constructed so far, in order
    eventQueue, \* the queued signal deliveries posted to the main thread
    ui,         \* the main thread: its position, _current_backend, _current_source
    delivered,  \* history: the last event a slot of MainWindow received
    registry,   \* core.exercises.REGISTRY, the dict _register fills
    selected,   \* the RepCounter last constructed over an entry of registry
    ctor,       \* one CameraThread(backend, source) call: the arguments, what is
                \* installed on the machine, the outcome
    runner,     \* the worker of that CameraThread and what it emitted
    cap,        \* the loop of that worker: _running, the position of the capture,
                \* whether cap.release() ran, the detect and close calls made, the
                \* counter, and last: what the last iteration did and found
    geo,        \* a call angle_between(a, b, c): the points, what it returned and
                \* what angle_between(c, b, a) returned
    clock       \* time.time() as a worker's loop reads it: now, the reading of the
                \* system clock; start, the loop's start_time; ts, the ts_ms passed
                \* to the detect calls so far

counterVars == <<rc, rcPrev, rcAngle, rcRet, rcOp, twin, fed, samples>>
unitVars == <<fb, yolo>>
pipeVars == <<running, exercise, counter, worker, step, frame, calls, before, signals,
              runStart, e2e>>
threadVars == <<_running, _exercise, _counter, _detector, counters, pc, loc, cpc,
                budget, obs, writers, notified>>
windowVars == <<_thread, threads, eventQueue, ui, delivered>>
registryVars == <<registry, selected>>
ctorVars == <<ctor, runner, cap>>
geometryVars == <<geo>>
clockVars == <<clock>>
laterVars == <<threadVars, windowVars, registryVars, ctorVars, geometryVars, clockVars>>
vars == <<rc, rcPrev, rcAngle, rcRet, rcOp, twin, fed, samples, fb, yolo,
          running, exercise, counter, worker, step, frame, calls, before, signals,
          runStart, e2e,
          _running, _exercise, _counter, _detector, counters, pc, loc, cpc,
          budget, obs, writers, notified,
          _thread, threads, eventQueue, ui, delivered,
          registry, selected, ctor, runner, cap, geo, clock>>

----------------------------------------------------------------------------
(* Bounds of the model *)

MaxReps == 3
MaxSamples == 5
MaxPersons == 2

\* Python's None, and a list value that stands where None may stand
None == [none |-> TRUE]
List(items) == [none |-> FALSE, items |-> items]

\* The angles fed to the model: every multiple of 5 degrees of [0, 180]. Every
\* threshold of the registry is one of them, with a sample on each side of it.
Angles == {5 * k : k \in 0..36}

----------------------------------------------------------------------------
(* core/landmarks.py *)

LEFT_SHOULDER == 11
LEFT_ELBOW == 13
LEFT_WRIST == 15
LEFT_HIP == 23
LEFT_KNEE == 25
LEFT_ANKLE == 27

----------------------------------------------------------------------------
(* core/exercises.py                                                       *)
(* In the messages the check mark is written (v) and the long dash -.      *)

FeedbackRule(lo, hi, message, color) ==
    [angle_min |-> lo, angle_max |-> hi, message |-> message, color |-> color]

Exercise(id, name, joint, down_max, up_min, feedback) ==
    [id |-> id, name |-> name, joint |-> joint,
     down_max |-> down_max, up_min |-> up_min, feedback |-> feedback]

REGISTRY ==
    [i \in 0..8 |->
      CASE i = 0 -> Exercise(0, "Squat", <<LEFT_HIP, LEFT_KNEE, LEFT_ANKLE>>, 100, 160,
                      <<FeedbackRule(0, 100, "(v) Good depth!", "#22c55e"),
                        FeedbackRule(100, 160, "↓ Go lower - aim 90°", "#f59e0b"),
                        FeedbackRule(160, 180, "↑ Stand up fully", "#94a3b8")>>)
        [] i = 1 -> Exercise(1, "Bicep Curl", <<LEFT_SHOULDER, LEFT_ELBOW, LEFT_WRIST>>, 60, 140,
                      <<FeedbackRule(0, 60, "(v) Good curl!", "#22c55e"),
                        FeedbackRule(60, 140, "↕ Full range of motion", "#f59e0b"),
                        FeedbackRule(140, 180, "(v) Good extension!", "#22c55e")>>)
        [] i = 2 -> Exercise(2, "Push-up", <<LEFT_SHOULDER, LEFT_ELBOW, LEFT_WRIST>>, 90, 160,
                      <<FeedbackRule(0, 90, "(v) Good depth!", "#22c55e"),
                        FeedbackRule(90, 160, "↓ Lower your chest more", "#f59e0b"),
                        FeedbackRule(160, 180, "↑ Push up fully", "#94a3b8")>>)
        [] i = 3 -> Exercise(3, "Lateral Raise", <<LEFT_HIP, LEFT_SHOULDER, LEFT_ELBOW>>, 40, 80,
                      <<FeedbackRule(0, 40, "↑ Raise to shoulder level", "#f59e0b"),
                        FeedbackRule(40, 80, "↕ Keep going", "#f59e0b"),
                        FeedbackRule(80, 180, "(v) Good height!", "#22c55e")>>)
        [] i = 4 -> Exercise(4, "Overhead Press", <<LEFT_ELBOW, LEFT_SHOULDER, LEFT_HIP>>, 80, 160,
                      <<FeedbackRule(0, 80, "↑ Press all the way up!", "#f59e0b"),
                        FeedbackRule(80, 160, "↕ Keep pressing", "#f59e0b"),
                        FeedbackRule(160, 180, "(v) Full lockout!", "#22c55e")>>)
        [] i = 5 -> Exercise(5, "Tricep Extension", <<LEFT_SHOULDER, LEFT_ELBOW, LEFT_WRIST>>, 70, 155,
                      <<FeedbackRule(0, 70, "(v) Good stretch!", "#22c55e"),
                        FeedbackRule(70, 155, "↕ Full range of motion", "#f59e0b"),
                        FeedbackRule(155, 180, "(v) Full extension!", "#22c55e")>>)
        [] i = 6 -> Exercise(6, "Front Raise", <<LEFT_HIP, LEFT_SHOULDER, LEFT_ELBOW>>, 50, 85,
                      <<FeedbackRule(0, 50, "↑ Raise to shoulder level", "#f59e0b"),
                        FeedbackRule(50, 85, "↕ Almost there", "#f59e0b"),
                        FeedbackRule(85, 180, "(v) Good height!", "#22c55e")>>)
        [] i = 7 -> Exercise(7, "Lunge", <<LEFT_HIP, LEFT_KNEE, LEFT_ANKLE>>, 95, 165,
                      <<FeedbackRule(0, 95, "(v) Good lunge depth!", "#22c55e"),
                        FeedbackRule(95, 165, "↓ Lower your back knee", "#f59e0b"),
                        FeedbackRule(165, 180, "↑ Stand up fully", "#94a3b8")>>)
        [] OTHER -> Exercise(8, "Shoulder Tap", <<LEFT_SHOULDER, LEFT_ELBOW, LEFT_WRIST>>, 100, 160,
                      <<FeedbackRule(0, 100, "(v) Arm bent - tap!", "#22c55e"),
                        FeedbackRule(100, 160, "↕ Transition", "#94a3b8"),
                        FeedbackRule(160, 180, "(v) Arm extended - plank!", "#22c55e")>>)]

\* Mutant: the upper end of a rule's range belongs to the rule.
Matches_Closed(rule, angle) == rule.angle_min <= angle /\ angle <= rule.angle_max

\* FeedbackRule.matches
Matches(rule, angle) == rule.angle_min <= angle /\ angle < rule.angle_max

\* The for loop of Exercise.get_feedback, from the i-th rule on
RECURSIVE ScanRules(_, _, _)
ScanRules(rules, angle, i) ==
    IF i > Len(rules) THEN None
    ELSE IF Matches(rules[i], angle) THEN rules[i]
    ELSE ScanRules(rules, angle, i + 1)

\* Exercise.get_feedback
GetFeedback(ex, angle) == ScanRules(ex.feedback, angle, 1)

----------------------------------------------------------------------------
(* detection/keypoint.py, detection/yolo_detector.py *)

RECURSIVE GCD(_, _)
GCD(a, b) == IF b = 0 THEN a ELSE GCD(b, a % b)

\* The quotient n / d of two naturals, d > 0, as a fraction in lowest terms
\* (0.0 is 0/1), so that equal quotients are equal values.
Quotient(n, d) == [num |-> n \div GCD(n, d), den |-> d \div GCD(n, d)]

Keypoint(x, y, visibility) == [x |-> x, y |-> y, visibility |-> visibility]

\* Keypoint(0.0, 0.0, 0.0)
ZeroKeypoint == Keypoint(Quotient(0, 1), Quotient(0, 1), 0)

\* Mutant: right_eye is sent to slot 2, the slot of left_eye, instead of slot 5.
_COCO_TO_MP_Clash ==
    [c \in 0..16 |->
      CASE c = 0 -> 0 [] c = 1 -> 2 [] c = 2 -> 2 [] c = 3 -> 7 [] c = 4 -> 8
        [] c = 5 -> 11 [] c = 6 -> 12 [] c = 7 -> 13 [] c = 8 -> 14
        [] c = 9 -> 15 [] c = 10 -> 16 [] c = 11 -> 23 [] c = 12 -> 24
        [] c = 13 -> 25 [] c = 14 -> 26 [] c = 15 -> 27 [] OTHER -> 28]

\* Mutant: left_wrist is sent to slot 17 (left_pinky) instead of slot 15.
_COCO_TO_MP_NoWrist ==
    [c \in 0..16 |->
      CASE c = 0 -> 0 [] c = 1 -> 2 [] c = 2 -> 5 [] c = 3 -> 7 [] c = 4 -> 8
        [] c = 5 -> 11 [] c = 6 -> 12 [] c = 7 -> 13 [] c = 8 -> 14
        [] c = 9 -> 17 [] c = 10 -> 16 [] c = 11 -> 23 [] c = 12 -> 24
        [] c = 13 -> 25 [] c = 14 -> 26 [] c = 15 -> 27 [] OTHER -> 28]

_COCO_TO_MP ==
    [c \in 0..16 |->
      CASE c = 0 -> 0 [] c = 1 -> 2 [] c = 2 -> 5 [] c = 3 -> 7 [] c = 4 -> 8
        [] c = 5 -> 11 [] c = 6 -> 12 [] c = 7 -> 13 [] c = 8 -> 14
        [] c = 9 -> 15 [] c = 10 -> 16 [] c = 11 -> 23 [] c = 12 -> 24
        [] c = 13 -> 25 [] c = 14 -> 26 [] c = 15 -> 27 [] OTHER -> 28]

Max2(a, b) == IF a > b THEN a ELSE b

\* The sum of the 17 confidences of one person; the mean is this sum / 17, so
\* the person of highest mean is the person of highest sum.
RECURSIVE ConfSum(_, _)
ConfSum(person, c) == IF c > 16 THEN 0 ELSE person[c].conf + ConfSum(person, c + 1)

\* Mutant: among persons of equal highest mean the last one is taken.
ArgMaxMeanConf_Last(persons) ==
    CHOOSE i \in 1..Len(persons) :
        /\ \A j \in 1..Len(persons) : ConfSum(persons[j], 0) <= ConfSum(persons[i], 0)
        /\ \A j \in (i + 1)..Len(persons) : ConfSum(persons[j], 0) < ConfSum(persons[i], 0)

\* conf.mean(dim=1).argmax(): the first person whose mean is the highest
ArgMaxMeanConf(persons) ==
    CHOOSE i \in 1..Len(persons) :
        /\ \A j \in 1..Len(persons) : ConfSum(persons[j], 0) <= ConfSum(persons[i], 0)
        /\ \A j \in 1..(i - 1) : ConfSum(persons[j], 0) < ConfSum(persons[i], 0)

\* The for loop of detect over the items of _COCO_TO_MP, from COCO index c on:
\* out[mp_i] = Keypoint(x_px / max(w, 1), y_px / max(h, 1), conf)
RECURSIVE FillSlots(_, _, _, _)
FillSlots(out, person, shape, c) ==
    IF c > 16 THEN out
    ELSE FillSlots(
           [out EXCEPT ![_COCO_TO_MP[c]] =
               Keypoint(Quotient(person[c].x, Max2(shape.w, 1)),
                        Quotient(person[c].y, Max2(shape.h, 1)),
                        person[c].conf)],
           person, shape, c + 1)

\* YOLODetector.detect. keypoints is res.keypoints: None, or the list of the
\* persons detected, each 17 keypoints [x, y, conf] in pixels. The list returned
\* has its items indexed by the slots 0..32.
Detect(shape, keypoints) ==
    IF keypoints = None \/ Len(keypoints.items) = 0 THEN None
    ELSE List(FillSlots([slot \in 0..32 |-> ZeroKeypoint],
                        keypoints.items[ArgMaxMeanConf(keypoints.items)], shape, 0))

----------------------------------------------------------------------------
(* detection/rep_counter.py *)

\* RepCounter(exercise=ex): the dataclass defaults reps = 0, state = "UP".
RepCounter(ex) == [exercise |-> ex, reps |-> 0, state |-> "UP"]

\* Mutant: the second rule is tried before the first.
Update_RulesSwapped(c, angle) ==
    IF angle > c.exercise.up_min /\ c.state = "DOWN"
      THEN [counter |-> [c EXCEPT !.state = "UP", !.reps = c.reps + 1], ret |-> TRUE]
      ELSE IF angle < c.exercise.down_max /\ c.state = "UP"
             THEN [counter |-> [c EXCEPT !.state = "DOWN"], ret |-> FALSE]
             ELSE [counter |-> c, ret |-> FALSE]

\* Mutant: the thresholds themselves belong to the outer ranges (<=, >=).
Update_InclusiveThresholds(c, angle) ==
    LET s1 == IF angle <= c.exercise.down_max /\ c.state = "UP" THEN "DOWN" ELSE c.state
    IN  IF angle >= c.exercise.up_min /\ s1 = "DOWN"
          THEN [counter |-> [c EXCEPT !.state = "UP", !.reps = c.reps + 1], ret |-> TRUE]
          ELSE [counter |-> [c EXCEPT !.state = s1], ret |-> FALSE]

\* Mutant: the counter does not have to be DOWN for a sample above up_min to count.
Update_NoHysteresis(c, angle) ==
    LET s1 == IF angle < c.exercise.down_max /\ c.state = "UP" THEN "DOWN" ELSE c.state
    IN  IF angle > c.exercise.up_min
          THEN [counter |-> [c EXCEPT !.state = "UP", !.reps = c.reps + 1], ret |-> TRUE]
          ELSE [counter |-> [c EXCEPT !.state = s1], ret |-> FALSE]

\* Mutant: a completed rep adds 2.
Update_CountsTwice(c, angle) ==
    LET s1 == IF angle < c.exercise.down_max /\ c.state = "UP" THEN "DOWN" ELSE c.state
    IN  IF angle > c.exercise.up_min /\ s1 = "DOWN"
          THEN [counter |-> [c EXCEPT !.state = "UP", !.reps = c.reps + 2], ret |-> TRUE]
          ELSE [counter |-> [c EXCEPT !.state = s1], ret |-> FALSE]

\* RepCounter.update: the two ifs run one after the other on the same angle;
\* the result is the counter after the call and the value returned.
Update(c, angle) ==
    LET s1 == IF angle < c.exercise.down_max /\ c.state = "UP" THEN "DOWN" ELSE c.state
    IN  IF angle > c.exercise.up_min /\ s1 = "DOWN"
          THEN [counter |-> [c EXCEPT !.state = "UP", !.reps = c.reps + 1], ret |-> TRUE]
          ELSE [counter |-> [c EXCEPT !.state = s1], ret |-> FALSE]

\* Mutant: reset() forgets to put the state back to UP.
Reset_KeepsState(c) == [c EXCEPT !.reps = 0]

\* RepCounter.reset
Reset(c) == [c EXCEPT !.reps = 0, !.state = "UP"]

----------------------------------------------------------------------------
(* core/config.py, camera/camera_thread.py: _process_frame *)

\* 0.6, in tenths
MIN_LANDMARK_VISIBILITY == 6

\* What detection finds in a frame: None, or the landmarks of a pose, of which
\* the worker reads the visibilities of the three joints of the exercise and
\* the angle angle_between gives for them.
Landmarks(vis, angle) == [vis |-> vis, angle |-> angle]

Min3(v) ==
    IF v[1] <= v[2] /\ v[1] <= v[3] THEN v[1] ELSE IF v[2] <= v[3] THEN v[2] ELSE v[3]

\* Mutant: a visibility of exactly the threshold is guarded too.
VisibilityGuard_Inclusive(landmarks) == Min3(landmarks.vis) <= MIN_LANDMARK_VISIBILITY

\* min(vis) < MIN_LANDMARK_VISIBILITY
VisibilityGuard(landmarks) == Min3(landmarks.vis) < MIN_LANDMARK_VISIBILITY

\* Mutant: the message of the except branch is the default.
Defaults_MoveIntoFrame == [angle |-> 0, msg |-> "Move into frame", color |-> "#94a3b8"]

\* angle, feedback_msg and feedback_color as set before the landmarks are looked at
Defaults == [angle |-> 0, msg |-> "", color |-> "#94a3b8"]

\* The except branch: only feedback_msg is assigned.
Except(out) == [out EXCEPT !.msg = "Move into frame"]

\* The try block of _process_frame for the landmarks of a pose: ex is
\* self._exercise as read before it, ctr is self._counter, fault names the call
\* that raises ("none": no call does). The result is the counter, the three
\* locals and the calls made.
TryBlock(ex, ctr, landmarks, fault) ==
    LET out == [counter |-> ctr, calls |-> {}] @@ Defaults
    IN  IF fault = "visibility" THEN Except(out)
        ELSE IF VisibilityGuard(landmarks)
          THEN [out EXCEPT !.msg = "⚠ Keep full body in frame", !.color = "#ef4444"]
        ELSE IF fault = "angle_between"
          THEN Except([out EXCEPT !.calls = {"angle_between"}])
        ELSE IF fault = "update"
          THEN Except([out EXCEPT !.angle = landmarks.angle,
                                  !.calls = {"angle_between", "update"}])
        ELSE IF fault = "get_feedback"
          THEN Except([out EXCEPT !.angle = landmarks.angle,
                                  !.counter = Update(ctr, landmarks.angle).counter,
                                  !.calls = {"angle_between", "update", "get_feedback"}])
        ELSE LET rule == GetFeedback(ex, landmarks.angle)
             IN  [counter |-> Update(ctr, landmarks.angle).counter,
                  calls |-> {"angle_between", "update", "get_feedback"},
                  angle |-> landmarks.angle,
                  msg |-> IF rule /= None THEN rule.message ELSE Defaults.msg,
                  color |-> IF rule /= None THEN rule.color ELSE Defaults.color]

\* _process_frame up to the emits. detect and draw_skeleton are called outside
\* the try block: an exception of theirs leaves _process_frame (raised).
Processed(ex, ctr, f) ==
    IF f.fault = "detect"
      THEN [raised |-> TRUE, counter |-> ctr, calls |-> {"detect"}] @@ Defaults
    ELSE IF f.landmarks = None
      THEN [raised |-> FALSE, counter |-> ctr, calls |-> {"detect"}] @@ Defaults
    ELSE IF f.fault = "draw_skeleton"
      THEN [raised |-> TRUE, counter |-> ctr, calls |-> {"detect", "draw_skeleton"}] @@ Defaults
    ELSE LET t == TryBlock(ex, ctr, f.landmarks, f.fault)
         IN  [t EXCEPT !.calls = @ \cup {"detect", "draw_skeleton"}] @@ [raised |-> FALSE]

\* Mutant: state_changed is emitted before stats_updated.
Emits_StateFirst(out, ctr) ==
    << [signal |-> "frame_ready"],
       [signal |-> "state_changed", state |-> ctr.state],
       [signal |-> "stats_updated", angle |-> out.angle, msg |-> out.msg,
        color |-> out.color, reps |-> ctr.reps] >>

\* The three emits that end _process_frame; ctr is self._counter as read there.
Emits(out, ctr) ==
    << [signal |-> "frame_ready"],
       [signal |-> "stats_updated", angle |-> out.angle, msg |-> out.msg,
        color |-> out.color, reps |-> ctr.reps],
       [signal |-> "state_changed", state |-> ctr.state] >>

\* The frames read. Every visibility is one of 0.0, 0.5, 0.6 and 1.0. With the
\* three joints visible the angle is any of Angles; the angle of a pose with an
\* occluded joint, which nothing reads, is one of three. An exception is raised
\* on frames without a pose (by detect) and on frames of the poses of FaultPoses.
VisibleTriples == {<<10, 10, 10>>, <<10, 6, 10>>}
OccludedTriples == {<<5, 10, 10>>, <<10, 10, 0>>}

FaultPoses == {Landmarks(<<10, 10, 10>>, 95), Landmarks(<<10, 10, 10>>, 170),
               Landmarks(<<5, 10, 10>>, 95)}

Faults == {"detect", "draw_skeleton", "visibility", "angle_between", "update", "get_feedback"}

\* The calls fault is one of, for the landmarks of a pose, are reached
Reached(landmarks, fault) ==
    fault \in {"angle_between", "update", "get_feedback"} => ~VisibilityGuard(landmarks)

NoFrame == [landmarks |-> None, fault |-> "none"]

Frames ==
    {NoFrame, [landmarks |-> None, fault |-> "detect"]}
      \cup {[landmarks |-> Landmarks(v, a), fault |-> "none"] : v \in VisibleTriples, a \in Angles}
      \cup {[landmarks |-> Landmarks(v, a), fault |-> "none"] : v \in OccludedTriples, a \in {0, 95, 170}}
      \cup {f \in [landmarks : FaultPoses, fault : Faults \ {"detect"}] :
               Reached(f.landmarks, f.fault)}

\* The angles of the end-to-end scenario
ScenarioAngles == <<180, 95, 170>>

\* CameraThread.__init__, and the thread started
PipeInit ==
    /\ running = TRUE
    /\ exercise = REGISTRY[0]
    /\ counter = RepCounter(REGISTRY[0])
    /\ worker = "running"
    /\ step = "start"
    /\ frame = NoFrame
    /\ calls = {}
    /\ before = counter
    /\ signals = <<>>
    /\ runStart = None
    /\ e2e = List(<<>>)

PipeIdle == PipeInit

----------------------------------------------------------------------------
(* Unit harness of the pure functions: get_feedback and detect are called on *)
(* inputs drawn from bounded sets.                                           *)

\* Exercises other than the registry's nine: RepCounter takes any Exercise, also one whose
\* thresholds are equal or inverted (nothing validates them).
InvertedExercise == Exercise(100, "inverted", <<LEFT_HIP, LEFT_KNEE, LEFT_ANKLE>>, 120, 60, <<>>)
EqualExercise == Exercise(101, "equal", <<LEFT_HIP, LEFT_KNEE, LEFT_ANKLE>>, 90, 90, <<>>)

\* Rule lists other than the registry's: overlapping ranges, the same range
\* twice, ranges with a gap between them, an empty list.
OverlappingExercise ==
    Exercise(102, "overlapping", <<LEFT_HIP, LEFT_KNEE, LEFT_ANKLE>>, 100, 160,
             <<FeedbackRule(50, 150, "first", "#22c55e"),
               FeedbackRule(0, 100, "second", "#f59e0b"),
               FeedbackRule(50, 150, "third", "#94a3b8"),
               FeedbackRule(0, 180, "fourth", "#94a3b8")>>)
GappedExercise ==
    Exercise(103, "gapped", <<LEFT_HIP, LEFT_KNEE, LEFT_ANKLE>>, 100, 160,
             <<FeedbackRule(120, 140, "upper", "#22c55e"),
               FeedbackRule(20, 40, "lower", "#f59e0b")>>)

FeedbackExercises ==
    {REGISTRY[i] : i \in DOMAIN REGISTRY}
      \cup {OverlappingExercise, GappedExercise, InvertedExercise}

\* One detected person: keypoint c lies at pixel (10c + a, 5c + b) and has
\* confidence (c + k) mod 11 tenths, so the 17 keypoints of a person differ.
Person(a, b, k) == [c \in 0..16 |-> [x |-> 10 * c + a, y |-> 5 * c + b, conf |-> (c + k) % 11]]

\* A person whose keypoints were all dropped by the model: pixel (0, 0), confidence 0.
LostPerson == [c \in 0..16 |-> [x |-> 0, y |-> 0, conf |-> 0]]

Persons == {Person(a, b, k) : a \in {0, 3}, b \in {0, 1}, k \in {0, 4}} \cup {LostPerson}

RECURSIVE SeqsUpTo(_, _)
SeqsUpTo(S, n) ==
    IF n = 0 THEN {<<>>}
    ELSE SeqsUpTo(S, n - 1) \cup {Append(q, x) : q \in {r \in SeqsUpTo(S, n - 1) : Len(r) = n - 1}, x \in S}

\* frame.shape[:2] of the frames given to detect
Shapes == {[w |-> 640, h |-> 480], [w |-> 320, h |-> 240]}

----------------------------------------------------------------------------
(* The objects of the models further below, as constructed.                *)

\* The locals of _process_frame before an iteration assigns them, and the
\* history of an iteration before it has done anything.
NoLocals == [ex |-> None, angle |-> 0, msg |-> "", color |-> "#94a3b8", ref |-> 0]
NoObs == [joints |-> -1, fed |-> 0, reps |-> 0, state |-> 0, done |-> FALSE, stale |-> FALSE]

\* CameraThread.__init__ and start(): the flag is set, exercise 0 is active with a
\* new counter, the detector is open, the worker is at the top of its loop.
ThreadInit ==
    /\ _running = TRUE
    /\ _exercise = REGISTRY[0]
    /\ counters = << RepCounter(REGISTRY[0]) >>
    /\ _counter = 1
    /\ _detector = "open"
    /\ pc = "loop"
    /\ loc = NoLocals
    /\ cpc = "idle"
    /\ budget = [frames |-> 0, commands |-> 0]
    /\ obs = NoObs
    /\ writers = {}
    /\ notified = <<>>

\* A CameraThread as MainWindow sees it: its arguments, its flag, and its
\* worker: "loop" (at the loop condition), "frame" (processing a frame) or
\* "finished" (run() returned).
NewThread(backend, source) ==
    [backend |-> backend, source |-> source, _running |-> TRUE, worker |-> "loop"]

\* MainWindow.__init__: the defaults, then _start_camera()
WindowInit ==
    /\ ui = [pc |-> "idle", _current_backend |-> "mediapipe", _current_source |-> "camera"]
    /\ threads = << NewThread("mediapipe", "camera") >>
    /\ _thread = 1
    /\ eventQueue = <<>>
    /\ delivered = None

\* core.exercises once imported: the nine definitions are registered.
RegistryInit ==
    /\ registry = REGISTRY
    /\ selected = None

\* The loop of run() before its first iteration
NoCapture ==
    [_running |-> TRUE, pos |-> 0, released |-> FALSE, detects |-> 0, closes |-> 0,
     counter |-> RepCounter(REGISTRY[0]),
     last |-> [kind |-> "none", emitted |-> 0, detects |-> 0, pos |-> 0,
               counter |-> RepCounter(REGISTRY[0])]]

\* No CameraThread(...) call made yet.
CtorIdle ==
    /\ ctor = [backend |-> "mediapipe", source |-> "camera", ultralytics |-> TRUE,
               mss |-> TRUE, webcam |-> TRUE, made |-> "pending"]
    /\ runner = [at |-> "unstarted", emitted |-> <<>>]
    /\ cap = NoCapture

----------------------------------------------------------------------------
(* core/geometry.py. Coordinates are whole numbers of 1e-4, so that the      *)
(* 1e-8 of the denominator is one unit of the products; the arithmetic is    *)
(* that of the reals. An angle is given by the largest of 0, 60, 90, 120,    *)
(* 180 degrees it reaches (the angles whose cosine is rational) and whether  *)
(* it is exactly that angle.                                                 *)

\* The 1e-8 added to the product of the norms, in units of 1e-8
Epsilon == 1

\* The largest coordinate of a point
MaxCoord == 1

Points == (-MaxCoord..MaxCoord) \X (-MaxCoord..MaxCoord)

\* np.array(p) - np.array(q)
Minus(p, q) == <<p[1] - q[1], p[2] - q[2]>>

\* np.dot(va, vc)
Dot(va, vc) == va[1] * vc[1] + va[2] * vc[2]

\* l <= h * sqrt(p), for whole numbers l and h and p >= 0
LeqRoot(l, h, p) ==
    IF h >= 0 THEN l <= 0 \/ l * l <= h * h * p
              ELSE l <= 0 /\ l * l >= h * h * p

\* l = h * sqrt(p)
EqRoot(l, h, p) == l * l = h * h * p /\ (l >= 0 <=> h >= 0 \/ p = 0)

\* Twice the cosine of the angles that can be told exactly
Cosines2 == [t \in {0, 60, 90, 120, 180} |->
               CASE t = 0 -> 2 [] t = 60 -> 1 [] t = 90 -> 0 [] t = 120 -> -1 [] t = 180 -> -2]

\* cos_theta <= h / 2, where cos_theta = d / (sqrt(p) + eps) clipped to [-1, 1]:
\* 2 d - h eps <= h sqrt(p). The clip changes nothing for -2 < h < 2, makes it
\* true for h = 2 and leaves it for h = -2.
CosLeq(d, p, eps, h) == h = 2 \/ LeqRoot(2 * d - h * eps, h, p)

\* clip(cos_theta) = h / 2
CosEq(d, p, eps, h) ==
    CASE h = 2  -> ~LeqRoot(2 * d - h * eps, h, p) \/ EqRoot(2 * d - h * eps, h, p)
      [] h = -2 -> LeqRoot(2 * d - h * eps, h, p)
      [] OTHER  -> EqRoot(2 * d - h * eps, h, p)

\* angle_between(a, b, c): the product of the norms is the root of p.
angle_between(a, b, c) ==
    LET va == Minus(a, b)
        vc == Minus(c, b)
        d  == Dot(va, vc)
        p  == Dot(va, va) * Dot(vc, vc)
        t  == CHOOSE t \in DOMAIN Cosines2 :
                /\ CosLeq(d, p, Epsilon, Cosines2[t])
                /\ \A u \in DOMAIN Cosines2 : CosLeq(d, p, Epsilon, Cosines2[u]) => u <= t
    IN  [reaches |-> t, exactly |-> CosEq(d, p, Epsilon, Cosines2[t])]

\* No call of angle_between made.
GeometryIdle ==
    geo = [a |-> <<0, 0>>, b |-> <<0, 0>>, c |-> <<0, 0>>, called |-> FALSE,
           out |-> [reaches |-> 0, exactly |-> FALSE],
           swapped |-> [reaches |-> 0, exactly |-> FALSE]]

\* The system clock is read in ticks of half a millisecond.
TicksPerMs == 2

\* The largest reading of the clock
MaxClock == 8

\* int(x * 1000) for x = d ticks: int() drops the fraction, towards 0.
IntMs(d) == IF d >= 0 THEN d \div TicksPerMs ELSE -((-d) \div TicksPerMs)

\* ts_ms = int((time.time() - start_time) * 1000)
TimestampMs(now, start_time) == IntMs(now - start_time)

\* No loop started.
ClockIdle == clock = [now |-> TicksPerMs, at |-> "unstarted", start |-> 0, ts |-> <<>>]

LaterIdle == ThreadInit /\ WindowInit /\ RegistryInit /\ CtorIdle /\ GeometryIdle /\ ClockIdle

UnitIdle ==
    /\ fb = [exercise |-> REGISTRY[0], angle |-> 0, rule |-> None, called |-> FALSE]
    /\ yolo = [shape |-> [w |-> 640, h |-> 480], keypoints |-> None, out |-> None, called |-> FALSE]

\* The arguments of one get_feedback call
FeedbackInputs ==
    /\ \E ex \in FeedbackExercises, angle \in Angles :
          fb = [exercise |-> ex, angle |-> angle, rule |-> None, called |-> FALSE]
    /\ yolo = [shape |-> [w |-> 640, h |-> 480], keypoints |-> None, out |-> None, called |-> FALSE]

\* fb.exercise.get_feedback(fb.angle)
FeedbackCall ==
    /\ ~fb.called
    /\ fb' = [fb EXCEPT !.rule = GetFeedback(fb.exercise, fb.angle), !.called = TRUE]
    /\ UNCHANGED <<counterVars, yolo, pipeVars, laterVars>>

\* The frame and the model output of one detect call
DetectInputs ==
    /\ fb = [exercise |-> REGISTRY[0], angle |-> 0, rule |-> None, called |-> FALSE]
    /\ \E shape \in Shapes, persons \in SeqsUpTo(Persons, MaxPersons), absent \in BOOLEAN :
          yolo = [shape |-> shape, keypoints |-> IF absent THEN None ELSE List(persons),
                  out |-> None, called |-> FALSE]

\* detector.detect(frame, ts) of the YOLO backend
DetectCall ==
    /\ ~yolo.called
    /\ yolo' = [yolo EXCEPT !.out = Detect(yolo.shape, yolo.keypoints), !.called = TRUE]
    /\ UNCHANGED <<counterVars, fb, pipeVars, laterVars>>

CounterIdle ==
    /\ rc = RepCounter(REGISTRY[0])
    /\ rcPrev = rc
    /\ rcAngle = 0
    /\ rcRet = FALSE
    /\ rcOp = "new"
    /\ twin = [counter |-> rc, ret |-> FALSE]
    /\ fed = [deadband |-> TRUE, resetFrom |-> "none"]
    /\ samples = <<>>

InitFeedback == CounterIdle /\ FeedbackInputs /\ PipeIdle /\ LaterIdle

NextFeedback == FeedbackCall

SpecFeedback == InitFeedback /\ [][NextFeedback]_vars

InitDetect == CounterIdle /\ DetectInputs /\ PipeIdle /\ LaterIdle

NextDetect == DetectCall

SpecDetect == InitDetect /\ [][NextDetect]_vars

----------------------------------------------------------------------------
(* Unit harness of RepCounter: a counter is constructed over an exercise and *)
(* update() and reset() are called on it in any order.                       *)

CounterExercises ==
    {REGISTRY[i] : i \in DOMAIN REGISTRY} \cup {InvertedExercise, EqualExercise}

InDeadband(ex, angle) == ex.down_max <= angle /\ angle <= ex.up_min

CounterInit ==
    /\ rc \in {RepCounter(ex) : ex \in CounterExercises}
    /\ rcPrev = rc
    /\ rcAngle = 0
    /\ rcRet = FALSE
    /\ rcOp = "new"
    /\ twin = [counter |-> rc, ret |-> FALSE]
    /\ fed = [deadband |-> TRUE, resetFrom |-> "none"]

\* rc.update(angle), and the same call on the twin
UpdateStep(angle) ==
    /\ rc.reps < MaxReps
    /\ rcPrev' = rc
    /\ rcAngle' = angle
    /\ rc' = Update(rc, angle).counter
    /\ rcRet' = Update(rc, angle).ret
    /\ rcOp' = "update"
    /\ twin' = Update(twin.counter, angle)
    /\ fed' = [fed EXCEPT !.deadband = @ /\ InDeadband(rc.exercise, angle)]

\* rc.reset(); the twin is replaced by RepCounter(exercise=rc.exercise)
ResetStep ==
    /\ rcPrev' = rc
    /\ rc' = Reset(rc)
    /\ rcOp' = "reset"
    /\ twin' = [counter |-> RepCounter(rc.exercise), ret |-> FALSE]
    /\ fed' = [deadband |-> TRUE, resetFrom |-> rc.state]
    /\ UNCHANGED <<rcAngle, rcRet>>

CounterUpdate == \E angle \in Angles : UpdateStep(angle) /\ UNCHANGED <<samples, unitVars, pipeVars, laterVars>>

CounterReset == ResetStep /\ UNCHANGED <<samples, unitVars, pipeVars, laterVars>>

InitCounter == CounterInit /\ samples = <<>> /\ UnitIdle /\ PipeIdle /\ LaterIdle

NextCounter == CounterUpdate \/ CounterReset

SpecCounter == InitCounter /\ [][NextCounter]_vars

----------------------------------------------------------------------------
(* Sequence harness of RepCounter: a fresh counter is fed a finite sequence *)
(* of angles, which is recorded.                                            *)

SeqAngles == {90, 100, 120, 130, 160, 170}

SeqExercises == {REGISTRY[0], REGISTRY[2], REGISTRY[3], InvertedExercise}

InitSeq ==
    /\ CounterInit
    /\ rc.exercise \in SeqExercises
    /\ samples = <<>>
    /\ UnitIdle
    /\ PipeIdle
    /\ LaterIdle

SeqUpdate ==
    \E angle \in SeqAngles :
        /\ Len(samples) < MaxSamples
        /\ UpdateStep(angle)
        /\ samples' = Append(samples, angle)
        /\ UNCHANGED <<unitVars, pipeVars, laterVars>>

NextSeq == SeqUpdate

SpecSeq == InitSeq /\ [][NextSeq]_vars

----------------------------------------------------------------------------
(* camera/camera_thread.py: the worker and the commands of the consumer. A *)
(* command is taken between two frames.                                    *)

\* Mutant: set_exercise replaces the exercise and keeps the counter.
NewCounter_Kept(ex, ctr) == [ctr EXCEPT !.exercise = ex]

\* self._counter = RepCounter(exercise=self._exercise)
NewCounter(ex, ctr) == RepCounter(ex)

\* One iteration of the loop of _run_capture or _run_screen whose read gave a
\* frame: _process_frame(frame, ...)
ProcessFrame ==
    \E f \in Frames :
      \E out \in {Processed(exercise, counter, f)} :
        LET scenario == /\ e2e /= None
                        /\ Len(e2e.items) < Len(ScenarioAngles)
                        /\ ~out.raised
                        /\ "update" \in out.calls
                        /\ f.fault = "none"
                        /\ f.landmarks.angle = ScenarioAngles[Len(e2e.items) + 1]
        IN  /\ worker = "running"
            /\ running
            /\ counter.reps < MaxReps
            /\ step' = "frame"
            /\ frame' = f
            /\ before' = counter
            /\ counter' = out.counter
            /\ calls' = out.calls
            /\ worker' = IF out.raised THEN "crashed" ELSE worker
            /\ signals' = IF out.raised THEN <<>> ELSE Emits(out, out.counter)
            /\ runStart' = IF f.landmarks = None /\ f.fault = "none"
                             THEN (IF runStart = None THEN counter ELSE runStart)
                             ELSE None
            /\ e2e' = IF scenario
                        THEN List(Append(e2e.items, <<Emits(out, out.counter)[2].reps,
                                                      Emits(out, out.counter)[3].state>>))
                        ELSE None
            /\ UNCHANGED <<running, exercise>>
            /\ UNCHANGED <<counterVars, unitVars, laterVars>>

\* CameraThread.set_exercise(exercise_id)
SetExercise ==
    \E id \in DOMAIN REGISTRY :
        /\ step' = "set_exercise"
        /\ before' = counter
        /\ exercise' = REGISTRY[id]
        /\ counter' = NewCounter(REGISTRY[id], counter)
        /\ signals' = <<>>
        /\ runStart' = None
        /\ e2e' = IF id = 0 THEN List(<<>>) ELSE None
        /\ frame' = NoFrame
        /\ calls' = {}
        /\ UNCHANGED <<running, worker>>
        /\ UNCHANGED <<counterVars, unitVars, laterVars>>

\* CameraThread.reset_reps()
ResetReps ==
    /\ step' = "reset_reps"
    /\ before' = counter
    /\ counter' = Reset(counter)
    /\ signals' = <<>>
    /\ runStart' = None
    /\ e2e' = None
    /\ frame' = NoFrame
    /\ calls' = {}
    /\ UNCHANGED <<running, exercise, worker>>
    /\ UNCHANGED <<counterVars, unitVars, laterVars>>

\* CameraThread.stop()
Stop ==
    /\ running
    /\ running' = FALSE
    /\ step' = "stop"
    /\ before' = counter
    /\ signals' = <<>>
    /\ runStart' = None
    /\ e2e' = None
    /\ frame' = NoFrame
    /\ calls' = {}
    /\ UNCHANGED <<exercise, counter, worker>>
    /\ UNCHANGED <<counterVars, unitVars, laterVars>>

\* The loop condition is found false and run() returns.
WorkerExit ==
    /\ worker = "running"
    /\ ~running
    /\ worker' = "finished"
    /\ step' = "exit"
    /\ before' = counter
    /\ signals' = <<>>
    /\ frame' = NoFrame
    /\ calls' = {}
    /\ UNCHANGED <<running, exercise, counter, runStart, e2e>>
    /\ UNCHANGED <<counterVars, unitVars, laterVars>>

Init == CounterIdle /\ UnitIdle /\ PipeInit /\ LaterIdle

Next == ProcessFrame \/ SetExercise \/ ResetReps \/ Stop \/ WorkerExit

Spec == Init /\ [][Next]_vars

----------------------------------------------------------------------------
(* Claims about the per-frame pipeline *)

PoseFrame == step = "frame" /\ frame.landmarks /= None

\* C5: for a frame with a pose whose three joints have a minimum visibility
\* below 0.6 the worker calls neither update nor get_feedback and leaves the
\* counter as it was, and the event emitted carries angle 0, the warning and
\* the colour #ef4444 (with the reps and state of before the frame). A minimum
\* of exactly 0.6 is not guarded: update and get_feedback are called.
C5_OccludedFrameSkipsCounting ==
    /\ (PoseFrame /\ Min3(frame.landmarks.vis) < 6) =>
          /\ "update" \notin calls
          /\ "get_feedback" \notin calls
          /\ "angle_between" \notin calls
          /\ counter = before
          /\ frame.fault = "none" =>
                /\ Len(signals) = 3
                /\ signals[2] = [signal |-> "stats_updated", angle |-> 0,
                                 msg |-> "⚠ Keep full body in frame",
                                 color |-> "#ef4444", reps |-> before.reps]
                /\ signals[3] = [signal |-> "state_changed", state |-> before.state]
    /\ (PoseFrame /\ Min3(frame.landmarks.vis) = 6 /\ frame.fault = "none") =>
          /\ {"update", "get_feedback"} \subseteq calls
          /\ signals[2].angle = frame.landmarks.angle
          /\ signals[2].msg /= "⚠ Keep full body in frame"

\* A counter that is DOWN with reps counted sees a frame with an occluded joint
\* whose angle would have completed a rep.
C5_Witness ==
    /\ PoseFrame
    /\ frame.fault = "none"
    /\ Min3(frame.landmarks.vis) < 6
    /\ frame.landmarks.angle > exercise.up_min
    /\ before.state = "DOWN"
    /\ before.reps > 0
    /\ Len(signals) = 3

\* C6: for a frame in which detection returns no pose the worker emits the
\* event with angle 0, an empty message and the colour #94a3b8, does not call
\* update and leaves reps and state as they were; after a run of such frames
\* the counter is as it was before the run.
C6_NoPoseFrameEmitsNeutralEvent ==
    /\ (step = "frame" /\ frame = NoFrame) =>
          /\ signals = << [signal |-> "frame_ready"],
                          [signal |-> "stats_updated", angle |-> 0, msg |-> "",
                           color |-> "#94a3b8", reps |-> before.reps],
                          [signal |-> "state_changed", state |-> before.state] >>
          /\ calls = {"detect"}
          /\ counter = before
          /\ runStart /= None
    /\ runStart /= None => counter = runStart

\* A frame without a pose, the second at least of its run, with the counter DOWN
\* since before the run.
C6_Witness ==
    /\ step = "frame"
    /\ frame = NoFrame
    /\ runStart /= None
    /\ runStart.state = "DOWN"
    /\ runStart.reps > 0
    /\ counter.state = "DOWN"

\* C7: after exercise 0 is selected, three consecutive frames whose visible
\* joints give 180, 95 and 170 degrees are emitted with reps 0, 0, 1 and states
\* UP, DOWN, UP.
C7_EndToEndOneRep ==
    e2e /= None =>
        /\ exercise = REGISTRY[0]
        /\ e2e.items = SubSeq(<< <<0, "UP">>, <<0, "DOWN">>, <<1, "UP">> >>, 1, Len(e2e.items))

\* The three frames of the scenario have been processed.
C7_Witness ==
    /\ e2e /= None
    /\ Len(e2e.items) = 3
    /\ step = "frame"
    /\ frame.landmarks.angle = 170

\* C10: an exception raised while a frame is processed (in detection, skeleton
\* drawing, the visibility check, angle computation, counter update or feedback
\* lookup) is caught: the event of the frame is emitted with the message
\* "Move into frame" and the worker goes on.
C10_FrameFailureIsCaught ==
    (step = "frame" /\ frame.fault /= "none") =>
        /\ worker = "running"
        /\ Len(signals) = 3
        /\ signals[2].msg = "Move into frame"

----------------------------------------------------------------------------
(* Claims about get_feedback and YOLODetector.detect *)

\* C8: get_feedback(angle) returns the first rule, in list order, whose
\* half-open range [angle_min, angle_max) holds the angle, and None when no rule
\* does; a rule is never returned for an angle equal to its angle_max; with the
\* ranges [0,90), [90,160), [160,180) the angle 90 gets the second rule.
C8_FirstMatchingRule ==
    fb.called =>
        LET rules == fb.exercise.feedback
            hits == {i \in 1..Len(rules) :
                        rules[i].angle_min <= fb.angle /\ fb.angle < rules[i].angle_max}
        IN  /\ hits = {} => fb.rule = None
            /\ hits /= {} => \E i \in hits : (\A j \in hits : i <= j) /\ fb.rule = rules[i]
            /\ \A i \in 1..Len(rules) : fb.angle = rules[i].angle_max => fb.rule /= rules[i]
            /\ ( /\ [i \in 1..Len(rules) |-> <<rules[i].angle_min, rules[i].angle_max>>]
                      = <<<<0, 90>>, <<90, 160>>, <<160, 180>>>>
                 /\ fb.angle = 90 )
                  => (fb.rule = rules[2] /\ fb.rule /= rules[1])

\* The push-up rules, whose ranges are those of the claim, were asked about 90.
C8_Witness ==
    /\ fb.called
    /\ fb.exercise = REGISTRY[2]
    /\ fb.angle = 90
    /\ fb.rule = REGISTRY[2].feedback[2]

TargetSlots == {_COCO_TO_MP[c] : c \in DOMAIN _COCO_TO_MP}

\* The list returned has the 33 slots, carries one detected person's 17
\* keypoints in their target slots, and is zero elsewhere.
PoseCarriesOnePerson ==
    /\ DOMAIN yolo.out.items = 0..32
    /\ \E p \in 1..Len(yolo.keypoints.items) :
          \A c \in DOMAIN _COCO_TO_MP :
              yolo.out.items[_COCO_TO_MP[c]] =
                  Keypoint(Quotient(yolo.keypoints.items[p][c].x, yolo.shape.w),
                           Quotient(yolo.keypoints.items[p][c].y, yolo.shape.h),
                           yolo.keypoints.items[p][c].conf)
    /\ \A slot \in 0..32 : slot \notin TargetSlots => yolo.out.items[slot] = ZeroKeypoint
    /\ \A c, d \in DOMAIN _COCO_TO_MP : _COCO_TO_MP[c] = _COCO_TO_MP[d] => c = d
    /\ Cardinality(DOMAIN _COCO_TO_MP) = 17

\* C9 as stated: a pose returned has 33 slots, each target slot of the injective
\* 17-entry table carries its COCO keypoint, every other slot is (0, 0, 0), and
\* exactly 16 slots are zero.
C9_ExactlySixteenZeroSlots ==
    (yolo.called /\ yolo.out /= None) =>
        /\ PoseCarriesOnePerson
        /\ Cardinality({slot \in 0..32 : yolo.out.items[slot] = ZeroKeypoint}) = 16

\* C9, amended: a pose returned has 33 slots, each target slot of the injective
\* 17-entry table carries its COCO keypoint, and exactly 16 slots are no target
\* of the table, each of them (0, 0, 0); a target slot is zero only when the
\* keypoint it carries is at pixel (0, 0) with confidence 0.
C9_SixteenUnmappedSlotsAreZero ==
    (yolo.called /\ yolo.out /= None) =>
        /\ PoseCarriesOnePerson
        /\ Cardinality(0..32 \ TargetSlots) = 16
        /\ \A slot \in 0..32 : yolo.out.items[slot] = ZeroKeypoint =>
              \/ slot \notin TargetSlots
              \/ \E p \in 1..Len(yolo.keypoints.items), c \in DOMAIN _COCO_TO_MP :
                    /\ _COCO_TO_MP[c] = slot
                    /\ yolo.keypoints.items[p][c] = [x |-> 0, y |-> 0, conf |-> 0]

\* detect returned a pose for a frame in which two persons were detected.
C9_Witness ==
    /\ yolo.called
    /\ yolo.out /= None
    /\ Len(yolo.keypoints.items) = 2
    /\ yolo.out.items[LEFT_KNEE].visibility > 0

----------------------------------------------------------------------------
(* Claims about RepCounter *)

Hysteresis(ex) == ex.down_max < ex.up_min

\* C1: update(angle) applies the two rules in order: UP becomes DOWN when
\* angle < down_max; then DOWN becomes UP, with reps + 1, when angle > up_min.
\* It returns true exactly when that call incremented reps, and changes reps or
\* state on no other path (the exercise never changes).
C1_UpdateAppliesRulesInOrder ==
    rcOp = "update" =>
        LET ex == rcPrev.exercise
            afterRule1 == IF rcPrev.state = "UP" /\ rcAngle < ex.down_max
                            THEN "DOWN" ELSE rcPrev.state
            rule2 == afterRule1 = "DOWN" /\ rcAngle > ex.up_min
        IN  /\ rc.exercise = ex
            /\ rule2 => rc.state = "UP" /\ rc.reps = rcPrev.reps + 1
            /\ ~rule2 => rc.state = afterRule1 /\ rc.reps = rcPrev.reps
            /\ rcRet <=> rc.reps = rcPrev.reps + 1
            /\ rcRet <=> rc.reps /= rcPrev.reps

\* An update() completed a rep that had been begun by an earlier call.
C1_Witness ==
    /\ rcOp = "update"
    /\ rcRet
    /\ rcPrev.state = "DOWN"
    /\ rcPrev.reps > 0

\* C2: for an exercise with down_max < up_min, an angle of [down_max, up_min]
\* leaves state and reps as they were and update returns false, whatever the
\* state and reps; so a counter fed only such angles since it was fresh has 0 reps.
C2_DeadbandChangesNothing ==
    Hysteresis(rc.exercise) =>
        /\ (rcOp = "update" /\ InDeadband(rcPrev.exercise, rcAngle))
              => (rc = rcPrev /\ ~rcRet)
        /\ fed.deadband => (rc.reps = 0 /\ rc.state = "UP")

\* A counter that is DOWN with reps counted is fed an angle strictly inside the
\* deadband.
C2_Witness ==
    /\ Hysteresis(rc.exercise)
    /\ rcOp = "update"
    /\ rcPrev.exercise.down_max < rcAngle
    /\ rcAngle < rcPrev.exercise.up_min
    /\ rcPrev.state = "DOWN"
    /\ rcPrev.reps > 0

\* C4: reset() leaves reps = 0 and state = UP and keeps the exercise, in any
\* state; and from the reset on the counter and the values update() returns
\* equal those of a counter constructed afresh at the reset and fed the same
\* angles.
C4_ResetIsFresh ==
    /\ rcOp = "reset" =>
          (rc.reps = 0 /\ rc.state = "UP" /\ rc.exercise = rcPrev.exercise)
    /\ fed.resetFrom /= "none" =>
          /\ rc = twin.counter
          /\ rcOp = "update" => rcRet = twin.ret

\* A counter reset while DOWN has since completed a rep.
C4_Witness ==
    /\ fed.resetFrom = "DOWN"
    /\ rcOp = "update"
    /\ rcRet

\* The indices, among the first n samples, of the samples that count as a rep:
\* those > up_min with a sample < down_max before them and after the last
\* counted one.
RECURSIVE CountedSamples(_, _, _)
CountedSamples(seq, ex, n) ==
    IF n = 0 THEN {}
    ELSE LET earlier == CountedSamples(seq, ex, n - 1)
             last == IF earlier = {} THEN 0
                     ELSE CHOOSE i \in earlier : \A j \in earlier : j <= i
         IN  IF /\ seq[n] > ex.up_min
                /\ \E j \in (last + 1)..(n - 1) : seq[j] < ex.down_max
               THEN earlier \cup {n}
               ELSE earlier

\* C3: for a fresh counter with down_max < up_min, reps is the number of
\* samples > up_min preceded, since the previous counted one, by a sample
\* < down_max. With thresholds 100 and 160: [170, 90, 170] gives 1 rep and ends
\* UP, [170, 120, 130, 170] gives 0 reps, [170, 90, 120, 90, 170] gives 1 rep.
C3_RepsCountFullCrossings ==
    Hysteresis(rc.exercise) =>
        /\ rc.reps = Cardinality(CountedSamples(samples, rc.exercise, Len(samples)))
        /\ (rc.exercise.down_max = 100 /\ rc.exercise.up_min = 160) =>
              /\ samples = <<170, 90, 170>> => (rc.reps = 1 /\ rc.state = "UP")
              /\ samples = <<170, 120, 130, 170>> => rc.reps = 0
              /\ samples = <<170, 90, 120, 90, 170>> => rc.reps = 1

\* The five-sample sequence of the claim has been fed to a squat counter.
C3_Witness ==
    /\ rc.exercise = REGISTRY[0]
    /\ samples = <<170, 90, 120, 90, 170>>
    /\ rc.reps = 1

----------------------------------------------------------------------------
(* camera/camera_thread.py: the worker thread of run() against the consumer *)
(* thread calling set_exercise, reset_reps and stop. A step is one access   *)
(* to a field the two threads share; the threads interleave between steps.  *)

MaxFrames == 2
MaxCommands == 2

\* The exercises the consumer selects, and what a detected pose shows at the
\* three joints of the exercise the worker measures it with.
ThreadExercises == {0, 3}
ThreadPoses ==
    {Landmarks(<<10, 10, 10>>, a) : a \in {30, 95, 170}} \cup {Landmarks(<<5, 10, 10>>, 95)}

\* RepCounter.update in its parts: the first if, the condition of the second
\* if, the body of the second if.
FirstRule(c, angle) ==
    IF angle < c.exercise.down_max /\ c.state = "UP" THEN [c EXCEPT !.state = "DOWN"] ELSE c

SecondRuleHolds(c, angle) == angle > c.exercise.up_min /\ c.state = "DOWN"

SecondRuleBody(c) == [c EXCEPT !.state = "UP", !.reps = c.reps + 1]

\* The variables of the other models are left alone.
OnlyThread == UNCHANGED <<counterVars, unitVars, pipeVars, windowVars, registryVars, ctorVars, geometryVars, clockVars>>

\* while self._running and cap.isOpened(): ret, frame = cap.read(); a failed
\* read goes back to the condition; after the loop, cap.release().
LoopCheck ==
    /\ pc = "loop"
    /\ IF ~_running
         THEN pc' = "done" /\ UNCHANGED <<loc, budget, obs>>
         ELSE \E ret \in BOOLEAN :
                IF ret /\ budget.frames < MaxFrames
                  THEN /\ pc' = "detect"
                       /\ loc' = NoLocals
                       /\ budget' = [budget EXCEPT !.frames = @ + 1]
                       /\ obs' = NoObs
                  ELSE UNCHANGED <<pc, loc, budget, obs>>
    /\ UNCHANGED <<_running, _exercise, _counter, _detector, counters, cpc, writers, notified>>
    /\ OnlyThread

\* landmarks = detector.detect(frame, ts_ms): the call is entered
CallDetect ==
    /\ pc = "detect"
    /\ pc' = "detecting"
    /\ UNCHANGED <<_running, _exercise, _counter, _detector, counters, loc, cpc, budget,
                   obs, writers, notified>>
    /\ OnlyThread

\* detect returns a pose or None. On a detector that close() has been called
\* on, the call goes on (close() of the YOLO backend does nothing) or raises
\* (the landmarker of MediaPipe is closed); nothing catches the exception.
DetectReturns ==
    /\ pc = "detecting"
    /\ \E found \in BOOLEAN, raises \in (IF _detector = "closed" THEN BOOLEAN ELSE {FALSE}) :
          pc' = IF raises THEN "crashed" ELSE IF found THEN "read_ex" ELSE "emit_stats"
    /\ UNCHANGED <<_running, _exercise, _counter, _detector, counters, loc, cpc, budget,
                   obs, writers, notified>>
    /\ OnlyThread

\* draw_skeleton(frame, landmarks); ex = self._exercise; j0, j1, j2 = ex.joint
ReadExercise ==
    /\ pc = "read_ex"
    /\ loc' = [loc EXCEPT !.ex = _exercise]
    /\ pc' = "measure"
    /\ UNCHANGED <<_running, _exercise, _counter, _detector, counters, cpc, budget, obs,
                   writers, notified>>
    /\ OnlyThread

\* The visibility guard and angle_between, on the joints of the local ex
Measure ==
    /\ pc = "measure"
    /\ \E lm \in ThreadPoses :
          IF VisibilityGuard(lm)
            THEN /\ loc' = [loc EXCEPT !.msg = "⚠ Keep full body in frame", !.color = "#ef4444"]
                 /\ pc' = "emit_stats"
                 /\ obs' = obs
            ELSE /\ loc' = [loc EXCEPT !.angle = lm.angle]
                 /\ pc' = "update"
                 /\ obs' = [obs EXCEPT !.joints = loc.ex.id]
    /\ UNCHANGED <<_running, _exercise, _counter, _detector, counters, cpc, budget,
                   writers, notified>>
    /\ OnlyThread

\* self._counter.update(angle): the reference is read, then update runs its
\* first if and tests the condition of its second.
UpdateCall ==
    /\ pc = "update"
    /\ LET c1 == FirstRule(counters[_counter], loc.angle)
       IN  /\ counters' = [counters EXCEPT ![_counter] = c1]
           /\ writers' = IF c1 /= counters[_counter]
                           THEN writers \cup {<<_counter, "worker">>} ELSE writers
           /\ pc' = IF SecondRuleHolds(c1, loc.angle) THEN "update_write" ELSE "emit_stats"
    /\ loc' = [loc EXCEPT !.ref = _counter]
    /\ obs' = [obs EXCEPT !.fed = _counter]
    /\ UNCHANGED <<_running, _exercise, _counter, _detector, cpc, budget, notified>>
    /\ OnlyThread

\* The body of the second if of update, on the instance update was called on
UpdateWrite ==
    /\ pc = "update_write"
    /\ counters' = [counters EXCEPT ![loc.ref] = SecondRuleBody(@)]
    /\ writers' = writers \cup {<<loc.ref, "worker">>}
    /\ pc' = "emit_stats"
    /\ UNCHANGED <<_running, _exercise, _counter, _detector, loc, cpc, budget, obs, notified>>
    /\ OnlyThread

\* rule = ex.get_feedback(angle), on the local ex; frame_ready.emit;
\* stats_updated.emit(angle, feedback_msg, feedback_color, self._counter.reps)
EmitStats ==
    /\ pc = "emit_stats"
    /\ LET rule == IF obs.fed /= 0 THEN GetFeedback(loc.ex, loc.angle) ELSE None
       IN  loc' = IF rule /= None
                    THEN [loc EXCEPT !.msg = rule.message, !.color = rule.color]
                    ELSE loc
    /\ obs' = [obs EXCEPT !.reps = _counter]
    /\ pc' = "emit_state"
    /\ UNCHANGED <<_running, _exercise, _counter, _detector, counters, cpc, budget,
                   writers, notified>>
    /\ OnlyThread

\* state_changed.emit(self._counter.state); back to the loop condition
EmitState ==
    /\ pc = "emit_state"
    /\ notified' = Append(notified, counters[_counter].state)
    /\ obs' = [obs EXCEPT !.state = _counter, !.done = TRUE]
    /\ pc' = "loop"
    /\ UNCHANGED <<_running, _exercise, _counter, _detector, counters, loc, cpc, budget,
                   writers>>
    /\ OnlyThread

\* set_exercise(id), first statement: self._exercise = REGISTRY[exercise_id]
SetExerciseAssign ==
    /\ cpc = "idle"
    /\ _running
    /\ budget.commands < MaxCommands
    /\ \E id \in ThreadExercises : _exercise' = REGISTRY[id]
    /\ cpc' = "set_exercise"
    /\ budget' = [budget EXCEPT !.commands = @ + 1]
    /\ UNCHANGED <<_running, _counter, _detector, counters, pc, loc, obs, writers, notified>>
    /\ OnlyThread

\* set_exercise, second statement: self._counter = RepCounter(exercise=self._exercise)
SetExerciseCounter ==
    /\ cpc = "set_exercise"
    /\ counters' = Append(counters, RepCounter(_exercise))
    /\ _counter' = Len(counters) + 1
    /\ cpc' = "idle"
    /\ UNCHANGED <<_running, _exercise, _detector, pc, loc, budget, obs, writers, notified>>
    /\ OnlyThread

\* reset_reps(): self._counter.reset(), first statement of reset: self.reps = 0
ResetRepsCall ==
    /\ cpc = "idle"
    /\ _running
    /\ budget.commands < MaxCommands
    /\ counters' = [counters EXCEPT ![_counter].reps = 0]
    /\ writers' = writers \cup {<<_counter, "consumer">>}
    /\ cpc' = "reset_reps"
    /\ budget' = [budget EXCEPT !.commands = @ + 1]
    /\ obs' = [obs EXCEPT !.stale = @ \/ (pc = "update_write" /\ loc.ref = _counter)]
    /\ UNCHANGED <<_running, _exercise, _counter, _detector, pc, loc, notified>>
    /\ OnlyThread

\* reset, second statement: self.state = "UP"
ResetRepsState ==
    /\ cpc = "reset_reps"
    /\ counters' = [counters EXCEPT ![_counter].state = "UP"]
    /\ cpc' = "idle"
    /\ UNCHANGED <<_running, _exercise, _counter, _detector, pc, loc, budget, obs, writers,
                   notified>>
    /\ OnlyThread

\* stop(), first statement: self._running = False
StopFlag ==
    /\ cpc = "idle"
    /\ _running
    /\ _running' = FALSE
    /\ cpc' = "stop"
    /\ UNCHANGED <<_exercise, _counter, _detector, counters, pc, loc, budget, obs, writers,
                   notified>>
    /\ OnlyThread

\* stop, second statement: self._detector.close()
StopClose ==
    /\ cpc = "stop"
    /\ _detector' = "closed"
    /\ cpc' = "idle"
    /\ UNCHANGED <<_running, _exercise, _counter, counters, pc, loc, budget, obs, writers,
                   notified>>
    /\ OnlyThread

InitThreads ==
    CounterIdle /\ UnitIdle /\ PipeIdle /\ ThreadInit /\ WindowInit /\ RegistryInit /\ CtorIdle
    /\ GeometryIdle /\ ClockIdle

NextThreads ==
    \/ LoopCheck \/ CallDetect \/ DetectReturns \/ ReadExercise \/ Measure
    \/ UpdateCall \/ UpdateWrite \/ EmitStats \/ EmitState
    \/ SetExerciseAssign \/ SetExerciseCounter \/ ResetRepsCall \/ ResetRepsState
    \/ StopFlag \/ StopClose

SpecThreads == InitThreads /\ [][NextThreads]_vars

----------------------------------------------------------------------------
(* Claims about the interleaving of the worker with the consumer's commands *)

\* C11: a command takes effect only at a frame boundary: in an iteration of the
\* worker the joints measured, the counter updated and the counter whose reps
\* and state are emitted belong to one exercise selection.
C11_IterationUsesOneSelection ==
    obs.done =>
        /\ obs.reps = obs.state
        /\ obs.fed /= 0 =>
              /\ obs.fed = obs.reps
              /\ counters[obs.fed].exercise.id = obs.joints

\* C12: rep counts never leak between exercises: an angle measured on the joints
\* of one exercise is never fed to a counter bound to another exercise, and a
\* counter set_exercise has just made active is fresh.
C12_NoAngleOfAnotherExercise ==
    /\ obs.fed /= 0 => counters[obs.fed].exercise.id = obs.joints
    /\ (cpc = "idle" /\ obs.fed /= _counter /\ <<_counter, "consumer">> \notin writers
          /\ <<_counter, "worker">> \notin writers) =>
             counters[_counter] = RepCounter(_exercise)

\* C13: the reps and state fields of a RepCounter instance are, after its
\* construction, written by the worker thread only.
C13_SingleWriter ==
    \A w \in writers : w[2] = "worker"

\* C14: once stop() has been called and the worker has left its loop, the
\* detector's close() has been executed.
C14_ClosedBeforeWorkerExits ==
    pc = "done" => _detector = "closed"

\* C15: close() is never executed while a detect() call is in progress, and no
\* detect() call is started after close().
C15_NoDetectOnClosedDetector ==
    pc = "detecting" => _detector = "open"

\* C18: state_changed is emitted only when the state differs from the state
\* last notified.
C18_StateChangedOnlyOnChange ==
    \A i \in 2..Len(notified) : notified[i] /= notified[i - 1]

----------------------------------------------------------------------------
(* ui/main_window.py: MainWindow, the CameraThread objects it starts and the *)
(* main thread's event queue. The signals of a CameraThread are emitted on   *)
(* its worker thread and connected with the default connection type to slots *)
(* of MainWindow, which lives on the main thread: every emit posts one event *)
(* to the main thread's queue, which the event loop delivers in order when   *)
(* no handler is running. A CameraThread is constructed with parent=self, so *)
(* it lives on after MainWindow._thread is set to None.                      *)

MaxThreads == 3
MaxQueue == 6

Backends == {"mediapipe", "yolo"}
Sources == {"camera", "screen", "clip.mp4"}

OnlyWindow == UNCHANGED <<counterVars, unitVars, pipeVars, threadVars, registryVars, ctorVars, geometryVars, clockVars>>

\* The three emits at the end of _process_frame, as events of thread t
Events(t) ==
    << [signal |-> "frame_ready", sender |-> t],
       [signal |-> "stats_updated", sender |-> t],
       [signal |-> "state_changed", sender |-> t] >>

\* A worker finds its flag set at the loop condition and reads a frame.
WorkerBegins ==
    /\ \E t \in DOMAIN threads :
          /\ threads[t].worker = "loop"
          /\ threads[t]._running
          /\ threads' = [threads EXCEPT ![t].worker = "frame"]
    /\ UNCHANGED <<_thread, eventQueue, ui, delivered>>
    /\ OnlyWindow

\* A worker comes to the end of _process_frame: the three emits.
WorkerEmits ==
    /\ \E t \in DOMAIN threads :
          /\ threads[t].worker = "frame"
          /\ Len(eventQueue) + 3 <= MaxQueue
          /\ eventQueue' = eventQueue \o Events(t)
          /\ threads' = [threads EXCEPT ![t].worker = "loop"]
    /\ UNCHANGED <<_thread, ui, delivered>>
    /\ OnlyWindow

\* A worker finds its flag cleared at the loop condition: run() returns.
WorkerExits ==
    /\ \E t \in DOMAIN threads :
          /\ threads[t].worker = "loop"
          /\ ~threads[t]._running
          /\ threads' = [threads EXCEPT ![t].worker = "finished"]
    /\ UNCHANGED <<_thread, eventQueue, ui, delivered>>
    /\ OnlyWindow

\* The event loop of the main thread delivers the oldest queued event to its
\* slot (_on_frame_ready, _on_stats_updated, _on_state_changed).
Deliver ==
    /\ ui.pc = "idle"
    /\ eventQueue /= <<>>
    /\ delivered' = [event |-> Head(eventQueue), current |-> _thread]
    /\ eventQueue' = Tail(eventQueue)
    /\ UNCHANGED <<_thread, threads, ui>>
    /\ OnlyWindow

\* _on_backend_changed(backend) / _on_source_changed(source) with a value other
\* than the current one, up to the stop() of _restart_thread; the handler then
\* sits in self._thread.wait(3000).
SwitchRequested ==
    /\ ui.pc = "idle"
    /\ Len(threads) < MaxThreads
    /\ \E b \in Backends, src \in Sources :
          /\ (b /= ui._current_backend) /= (src /= ui._current_source)
          /\ ui' = [pc |-> "wait", _current_backend |-> b, _current_source |-> src]
    /\ threads' = [threads EXCEPT ![_thread]._running = FALSE]
    /\ UNCHANGED <<_thread, eventQueue, delivered>>
    /\ OnlyWindow

\* wait(3000) returns, because the worker has finished or because 3 seconds
\* have passed with the worker still inside a frame (a read or a detection that
\* takes longer); its result is not looked at. Then self._thread = None and
\* _start_camera(): a new CameraThread is constructed, connected and started.
WaitReturns ==
    /\ ui.pc = "wait"
    /\ threads[_thread].worker \in {"finished", "frame"}
    /\ threads' = Append(threads, NewThread(ui._current_backend, ui._current_source))
    /\ _thread' = Len(threads) + 1
    /\ ui' = [ui EXCEPT !.pc = "idle"]
    /\ UNCHANGED <<eventQueue, delivered>>
    /\ OnlyWindow

InitWindow ==
    CounterIdle /\ UnitIdle /\ PipeIdle /\ ThreadInit /\ WindowInit /\ RegistryInit /\ CtorIdle
    /\ GeometryIdle /\ ClockIdle

NextWindow ==
    WorkerBegins \/ WorkerEmits \/ WorkerExits \/ Deliver \/ SwitchRequested \/ WaitReturns

SpecWindow == InitWindow /\ [][NextWindow]_vars

\* C16: at most one worker is running at any moment, and no event of a previous
\* worker is delivered once its replacement has been started.
C16_OneWorkerAtATime ==
    /\ Cardinality({t \in DOMAIN threads : threads[t].worker /= "finished"}) <= 1
    /\ delivered /= None => delivered.event.sender = delivered.current

\* C17: at most one undelivered event of each kind is pending for the consumer.
C17_BacklogAtMostOne ==
    \A k \in {"frame_ready", "stats_updated", "state_changed"} :
        Cardinality({i \in DOMAIN eventQueue : eventQueue[i].signal = k}) <= 1

----------------------------------------------------------------------------
(* core/exercises.py: _register and the registry it fills                  *)

\* Definitions given to _register besides the nine of the module: a new id or
\* the id of the squat, with thresholds in either order or equal.
Definitions ==
    {Exercise(id, "custom", <<LEFT_HIP, LEFT_KNEE, LEFT_ANKLE>>, down_max, up_min, <<>>) :
        id \in {0, 9}, down_max \in {60, 90, 120}, up_min \in {60, 90, 120}}

\* _register(ex): REGISTRY[ex.id] = ex
_register(reg, ex) == (ex.id :> ex) @@ reg

OnlyRegistry == UNCHANGED <<counterVars, unitVars, pipeVars, threadVars, windowVars, ctorVars, geometryVars, clockVars>>

\* A definition is loaded.
Register ==
    /\ \E ex \in Definitions : registry' = _register(registry, ex)
    /\ UNCHANGED selected
    /\ OnlyRegistry

\* set_exercise(id) over the registry as loaded: RepCounter(exercise=REGISTRY[id])
SelectRegistered ==
    /\ \E id \in DOMAIN registry : selected' = RepCounter(registry[id])
    /\ UNCHANGED registry
    /\ OnlyRegistry

InitRegistry ==
    CounterIdle /\ UnitIdle /\ PipeIdle /\ ThreadInit /\ WindowInit /\ RegistryInit /\ CtorIdle
    /\ GeometryIdle /\ ClockIdle

NextRegistry == Register \/ SelectRegistered

SpecRegistry == InitRegistry /\ [][NextRegistry]_vars

\* C19: the registry never holds an exercise with down_max >= up_min, and no
\* RepCounter is constructed over one.
C19_RegistryRejectsInvertedThresholds ==
    /\ \A id \in DOMAIN registry : registry[id].down_max < registry[id].up_min
    /\ selected /= None => selected.exercise.down_max < selected.exercise.up_min

----------------------------------------------------------------------------
(* detection/detector_factory.py, CameraThread.__init__ and run(): one      *)
(* CameraThread(backend, source) call, then start().                        *)

BackendNames == {"mediapipe", "yolo", "openpose", ""}
SourceNames == {"camera", "screen", "clip.mp4", "notes.txt", "webcam"}

\* create_detector(backend): the detector made, or the exception raised;
\* YOLODetector() raises ImportError when ultralytics is not installed.
create_detector(backend, ultralytics) ==
    IF backend = "mediapipe" THEN "PoseDetector"
    ELSE IF backend = "yolo" THEN (IF ultralytics THEN "YOLODetector" ELSE "ImportError")
    ELSE "ValueError"

\* cap.isOpened() of the capture run() makes for a source that is not
\* "screen": the camera when there is one, a path when it is a video file.
IsOpened(source, webcam) ==
    IF source = "camera" THEN webcam ELSE source = "clip.mp4"

OnlyCtor == UNCHANGED <<counterVars, unitVars, pipeVars, threadVars, windowVars, registryVars, geometryVars, clockVars>>

\* The arguments of the call and what the machine has.
CtorInputs ==
    /\ \E backend \in BackendNames, source \in SourceNames, u \in BOOLEAN, m \in BOOLEAN,
          w \in BOOLEAN :
          ctor = [backend |-> backend, source |-> source, ultralytics |-> u, mss |-> m,
                  webcam |-> w, made |-> "pending"]
    /\ runner = [at |-> "unstarted", emitted |-> <<>>]
    /\ cap = NoCapture

\* CameraThread(backend=..., source=...): the source is stored as given;
\* create_detector(backend) makes the detector or raises.
Construct ==
    /\ ctor.made = "pending"
    /\ \E d \in {create_detector(ctor.backend, ctor.ultralytics)} :
          ctor' = [ctor EXCEPT !.made = IF d \in {"ValueError", "ImportError"}
                                          THEN d ELSE "constructed"]
    /\ UNCHANGED <<runner, cap>>
    /\ OnlyCtor

\* start()
Start ==
    /\ ctor.made = "constructed"
    /\ runner.at = "unstarted"
    /\ runner' = [runner EXCEPT !.at = "run"]
    /\ UNCHANGED <<ctor, cap>>
    /\ OnlyCtor

\* The ImportError branch of _run_screen: the blank frame with "Run: pip
\* install mss" is emitted by frame_ready, and _run_screen returns.
\* Mutant: it returns without emitting.
ImportErrorBranch_Silent == [at |-> "returned", emitted |-> <<>>]

ImportErrorBranch == [at |-> "returned", emitted |-> <<"frame_ready">>]

\* run(): "screen" goes to _run_screen; "camera" opens the camera; anything
\* else is taken for the path of a video file. A capture that is not opened
\* ends the loop before its first iteration, and cap.release() runs.
Run ==
    /\ runner.at = "run"
    /\ IF ctor.source = "screen"
         THEN /\ runner' = IF ctor.mss THEN [runner EXCEPT !.at = "screen_loop"]
                           ELSE ImportErrorBranch
              /\ cap' = cap
         ELSE IF IsOpened(ctor.source, ctor.webcam)
           THEN runner' = [runner EXCEPT !.at = "capture_loop"] /\ cap' = cap
           ELSE runner' = [runner EXCEPT !.at = "returned"]
                /\ cap' = [cap EXCEPT !.released = TRUE]
    /\ UNCHANGED ctor
    /\ OnlyCtor

\* The frames of a video file; a read at the end of the stream fails.
FileLength == 2

\* The frames the loop reads: without a pose, with a pose at 95 or 170
\* degrees, and frames on which detect or update raises.
CaptureFrames ==
    {NoFrame, [landmarks |-> None, fault |-> "detect"],
     [landmarks |-> Landmarks(<<10, 10, 10>>, 95), fault |-> "none"],
     [landmarks |-> Landmarks(<<10, 10, 10>>, 170), fault |-> "none"],
     [landmarks |-> Landmarks(<<10, 10, 10>>, 170), fault |-> "update"]}

\* Mutant: the file is not set back to its first frame.
FailedRead_NoRewind(c, is_file) == c

\* if not ret: in file mode cap.set(cv2.CAP_PROP_POS_FRAMES, 0); continue
FailedRead(c, is_file) == [c EXCEPT !.pos = IF is_file THEN 0 ELSE @]

\* One pass of the loop of _run_capture or _run_screen: the condition, the
\* read, _process_frame. An exception that leaves _process_frame leaves the
\* loop and run() (raised); nothing after the loop runs then.
Iteration ==
    /\ runner.at \in {"capture_loop", "screen_loop"}
    /\ LET capture == runner.at = "capture_loop"
           is_file == ctor.source /= "camera"
           now(kind) == [kind |-> kind, emitted |-> Len(runner.emitted),
                         detects |-> cap.detects, pos |-> cap.pos, counter |-> cap.counter]
       IN  \/ /\ ~cap._running \/ capture
              /\ runner' = [runner EXCEPT !.at = "returned"]
              /\ cap' = [cap EXCEPT !.released = capture, !.last = now("exit")]
           \/ /\ cap._running
              /\ capture
              /\ cap' = [FailedRead(cap, is_file) EXCEPT !.last = now("read_failed")]
              /\ runner' = runner
           \/ /\ cap._running
              /\ capture /\ is_file => cap.pos < FileLength
              /\ Len(runner.emitted) < 3 * MaxFrames
              /\ \E f \in CaptureFrames :
                   \E out \in {Processed(REGISTRY[0], cap.counter, f)} :
                      /\ runner' = IF out.raised THEN [runner EXCEPT !.at = "raised"]
                                   ELSE [runner EXCEPT !.emitted =
                                           @ \o <<"frame_ready", "stats_updated", "state_changed">>]
                      /\ cap' = [cap EXCEPT !.pos = IF capture /\ is_file THEN @ + 1 ELSE @,
                                            !.detects = @ + 1,
                                            !.counter = out.counter,
                                            !.last = now(IF out.raised THEN "raised" ELSE "frame")]
    /\ UNCHANGED ctor
    /\ OnlyCtor

\* stop(), called once: the flag is cleared and the detector closed.
StopRun ==
    /\ ctor.made = "constructed"
    /\ cap._running
    /\ cap' = [cap EXCEPT !._running = FALSE, !.closes = @ + 1]
    /\ UNCHANGED <<ctor, runner>>
    /\ OnlyCtor

InitCtor ==
    CounterIdle /\ UnitIdle /\ PipeIdle /\ ThreadInit /\ WindowInit /\ RegistryInit /\ CtorInputs
    /\ GeometryIdle /\ ClockIdle

NextCtor == Construct \/ Start \/ Run \/ Iteration \/ StopRun

SpecCtor == InitCtor /\ [][NextCtor]_vars

\* C20: a backend other than 'mediapipe' and 'yolo' makes the construction raise
\* ValueError before any worker is started or any event emitted, and a source
\* that is neither 'camera', 'screen' nor a video file is rejected at
\* construction as well.
C20_UnknownNamesFailAtConstruction ==
    /\ ctor.backend \notin {"mediapipe", "yolo"} =>
          /\ ctor.made \in {"pending", "ValueError"}
          /\ runner = [at |-> "unstarted", emitted |-> <<>>]
    /\ ctor.source \notin {"camera", "screen", "clip.mp4"} => ctor.made /= "constructed"

----------------------------------------------------------------------------
(* Further claims about RepCounter, the frames of the worker and detect    *)

\* C26: with down_max < up_min one update call makes at most one transition: a
\* call that finds the counter UP never counts a rep, and the reps after n
\* samples are at most n / 2. With up_min < angle < down_max (thresholds
\* inverted) one call on an UP counter makes both transitions and counts.
C26_OneTransitionPerUpdate ==
    /\ Hysteresis(rc.exercise) =>
          /\ (rcOp = "update" /\ rcPrev.state = "UP") =>
                /\ ~rcRet
                /\ rc.reps = rcPrev.reps
          /\ (rcOp = "update" /\ rcPrev.state = "DOWN") => rc.reps <= rcPrev.reps + 1
          /\ 2 * rc.reps <= Len(samples)
    /\ (rcOp = "update" /\ rcPrev.state = "UP" /\ rcAngle > rc.exercise.up_min
          /\ rcAngle < rc.exercise.down_max) =>
             /\ rcRet
             /\ rc.reps = rcPrev.reps + 1
             /\ rc.state = "UP"

\* Four samples have counted two reps, the most four samples can.
C26_Witness ==
    /\ Hysteresis(rc.exercise)
    /\ Len(samples) = 4
    /\ rc.reps = 2
    /\ rcRet

\* C27: the active counter always has a state of UP or DOWN and reps >= 0, and
\* the reps a frame emits are the reps the counter had before the frame or one
\* more.
C27_EmittedRepsGrowByAtMostOne ==
    /\ counter.state \in {"UP", "DOWN"}
    /\ counter.reps >= 0
    /\ (step = "frame" /\ signals /= <<>>) =>
          /\ signals[2].reps >= before.reps
          /\ signals[2].reps <= before.reps + 1
          /\ signals[2].reps = counter.reps

\* A frame has emitted one rep more than the frame before it, which had counted
\* already.
C27_Witness ==
    /\ step = "frame"
    /\ signals /= <<>>
    /\ before.reps = 1
    /\ signals[2].reps = 2

\* C28: a frame that is processed without an exception leaving _process_frame
\* emits exactly frame_ready, stats_updated, state_changed, in that order,
\* whatever detection gave: no pose, an occluded joint, an angle, or an
\* exception caught by the try block.
C28_ThreeEmitsInOrder ==
    (step = "frame" /\ worker /= "crashed") =>
        /\ Len(signals) = 3
        /\ signals[1].signal = "frame_ready"
        /\ signals[2].signal = "stats_updated"
        /\ signals[3].signal = "state_changed"

\* The frame of a caught exception has emitted its three signals.
C28_Witness ==
    /\ step = "frame"
    /\ frame.fault = "update"
    /\ Len(signals) = 3
    /\ signals[2].msg = "Move into frame"

\* C30: with persons detected, detect returns the keypoints of the person whose
\* mean confidence is the highest, the first of them in array order when
\* several have it; with no person it returns None.
C30_BestPersonFirstOnTies ==
    yolo.called =>
        IF yolo.keypoints = None \/ Len(yolo.keypoints.items) = 0
          THEN yolo.out = None
          ELSE LET persons == yolo.keypoints.items
               IN  \E i \in 1..Len(persons) :
                     /\ \A j \in 1..Len(persons) :
                           ConfSum(persons[j], 0) <= ConfSum(persons[i], 0)
                     /\ \A j \in 1..(i - 1) :
                           ConfSum(persons[j], 0) < ConfSum(persons[i], 0)
                     /\ yolo.out /= None
                     /\ \A c \in 0..16 :
                           /\ yolo.out.items[_COCO_TO_MP[c]].visibility = persons[i][c].conf
                           /\ yolo.out.items[_COCO_TO_MP[c]].x =
                                 Quotient(persons[i][c].x, Max2(yolo.shape.w, 1))

\* Two persons of the same mean confidence at different places: the first one
\* is returned.
C30_Witness ==
    /\ yolo.called
    /\ yolo.keypoints /= None
    /\ Len(yolo.keypoints.items) = 2
    /\ ConfSum(yolo.keypoints.items[1], 0) = ConfSum(yolo.keypoints.items[2], 0)
    /\ yolo.keypoints.items[1][0].x /= yolo.keypoints.items[2][0].x
    /\ yolo.out /= None
    /\ yolo.out.items[0].x = Quotient(yolo.keypoints.items[1][0].x, Max2(yolo.shape.w, 1))
    /\ yolo.out.items[0].visibility > 0

\* C25: a reset_reps() is never lost: once it has returned, and until an update
\* call that began after it counts a rep, the reps of the active counter are 0,
\* also when the reset came while an update call was in progress.
C25_ResetIsNeverLost ==
    (obs.stale /\ cpc = "idle") => counters[_counter].reps = 0

----------------------------------------------------------------------------
(* Claims about the loops of run()                                          *)

\* C21: when the camera or the video file cannot be opened, the worker does
\* not end silently: something is reported before run() returns.
C21_UnopenedCaptureIsReported ==
    (ctor.source /= "screen" /\ ~IsOpened(ctor.source, ctor.webcam) /\ runner.at = "returned") =>
        runner.emitted /= <<>>

\* C22: a failed read does not end the loop; in file mode the position is set
\* back to 0, in camera mode it is left alone; nothing is emitted, detect is not
\* called and the counter is not changed.
C22_FailedReadIsRetried ==
    cap.last.kind = "read_failed" =>
        /\ runner.at = "capture_loop"
        /\ ~cap.released
        /\ Len(runner.emitted) = cap.last.emitted
        /\ cap.detects = cap.last.detects
        /\ cap.counter = cap.last.counter
        /\ cap.pos = IF ctor.source = "camera" THEN cap.last.pos ELSE 0

\* A read of the video file fails after frames of it were processed, with the
\* counter DOWN.
C22_Witness ==
    /\ cap.last.kind = "read_failed"
    /\ ctor.source = "clip.mp4"
    /\ cap.last.pos = FileLength
    /\ cap.pos = 0
    /\ cap.counter.state = "DOWN"
    /\ Len(runner.emitted) > 0
    /\ cap._running

\* C23: in screen mode without mss the worker emits one frame_ready (the blank
\* frame with the instruction) and nothing else, calls detect never, leaves the
\* counter alone and returns without raising.
C23_PlaceholderWithoutMss ==
    (ctor.source = "screen" /\ ~ctor.mss /\ runner.at \notin {"unstarted", "run"}) =>
        /\ runner.at = "returned"
        /\ runner.emitted = <<"frame_ready">>
        /\ cap.detects = 0
        /\ cap.counter = RepCounter(REGISTRY[0])

C23_Witness ==
    /\ ctor.source = "screen"
    /\ ~ctor.mss
    /\ runner.at = "returned"
    /\ ~cap._running

\* C29: whenever the capture loop has ended, by stop(), by the capture closing
\* or by an exception, cap.release() has been executed; and the detector is
\* closed at most once.
C29_ReleasedOnEveryExit ==
    /\ (ctor.source /= "screen" /\ runner.at \in {"returned", "raised"}) => cap.released
    /\ cap.closes <= 1

----------------------------------------------------------------------------
(* Calls of angle_between                                                   *)

GeometryInputs ==
    \E a \in Points, b \in Points, c \in Points :
        geo = [a |-> a, b |-> b, c |-> c, called |-> FALSE,
               out |-> [reaches |-> 0, exactly |-> FALSE],
               swapped |-> [reaches |-> 0, exactly |-> FALSE]]

\* angle_between(a, b, c), and angle_between(c, b, a) beside it
AngleCall ==
    /\ ~geo.called
    /\ geo' = [geo EXCEPT !.called = TRUE,
                          !.out = angle_between(geo.a, geo.b, geo.c),
                          !.swapped = angle_between(geo.c, geo.b, geo.a)]
    /\ UNCHANGED <<counterVars, unitVars, pipeVars, threadVars, windowVars, registryVars, ctorVars, clockVars>>

InitGeometry ==
    CounterIdle /\ UnitIdle /\ PipeIdle /\ ThreadInit /\ WindowInit /\ RegistryInit /\ CtorIdle
    /\ GeometryInputs /\ ClockIdle

NextGeometry == AngleCall

SpecGeometry == InitGeometry /\ [][NextGeometry]_vars

\* C24: angle_between(A, B, C) equals angle_between(C, B, A); it is 90 for
\* A = (1,0), B = (0,0), C = (0,1); it is 0 when A = C and A is not B; and for
\* every input, A = B and C = B included, it is a value from 0 to 180.
C24_AngleBetweenContract ==
    geo.called =>
        /\ geo.out = geo.swapped
        /\ (geo.a = <<1, 0>> /\ geo.b = <<0, 0>> /\ geo.c = <<0, 1>>) =>
               geo.out = [reaches |-> 90, exactly |-> TRUE]
        /\ (geo.a = geo.c /\ geo.a /= geo.b) => geo.out = [reaches |-> 0, exactly |-> TRUE]
        /\ geo.out.reaches \in 0..180

----------------------------------------------------------------------------
(* Claims about the contents of REGISTRY                                    *)

\* C34: each of the three indices of the joint of every exercise of REGISTRY
\* is a slot 0..32 that _COCO_TO_MP has as a target, so what detect of the YOLO
\* backend returns has, at each of them, a keypoint of a detected person and
\* not the Keypoint(0, 0, 0) the other slots are left with.
C34_JointsAreMappedSlots ==
    /\ \A i \in DOMAIN REGISTRY : \A k \in 1..3 :
          /\ REGISTRY[i].joint[k] \in 0..32
          /\ \E c \in 0..16 : _COCO_TO_MP[c] = REGISTRY[i].joint[k]
    /\ (yolo.called /\ yolo.out /= None) =>
          \A i \in DOMAIN REGISTRY : \A k \in 1..3 :
             \E c \in 0..16 : \E n \in 1..Len(yolo.keypoints.items) :
                LET person == yolo.keypoints.items[n]
                IN  yolo.out.items[REGISTRY[i].joint[k]] =
                       Keypoint(Quotient(person[c].x, Max2(yolo.shape.w, 1)),
                                Quotient(person[c].y, Max2(yolo.shape.h, 1)),
                                person[c].conf)

\* detect has returned a person whose shoulder, elbow and wrist (the joint of
\* the Bicep Curl) all have a visibility above 0.
C34_Witness ==
    /\ yolo.called
    /\ yolo.out /= None
    /\ \A k \in 1..3 : yolo.out.items[REGISTRY[1].joint[k]].visibility > 0
    /\ yolo.out.items[LEFT_WRIST].x /= Quotient(0, 1)

\* C35: for every exercise of REGISTRY the key is the id, 0 <= down_max <
\* up_min <= 180, and the rules are [0, down_max), [down_max, up_min) and
\* [up_min, 180); so get_feedback returns, for an angle below 180, the one rule
\* whose range holds the angle, in whatever order the rules are listed, and
\* None for the angle 180.
C35_RulesPartitionTheAngles ==
    /\ \A i \in DOMAIN REGISTRY :
          LET ex == REGISTRY[i]
          IN  /\ ex.id = i
              /\ 0 <= ex.down_max /\ ex.down_max < ex.up_min /\ ex.up_min <= 180
              /\ Len(ex.feedback) = 3
              /\ <<ex.feedback[1].angle_min, ex.feedback[1].angle_max>> = <<0, ex.down_max>>
              /\ <<ex.feedback[2].angle_min, ex.feedback[2].angle_max>> = <<ex.down_max, ex.up_min>>
              /\ <<ex.feedback[3].angle_min, ex.feedback[3].angle_max>> = <<ex.up_min, 180>>
    /\ (fb.called /\ fb.exercise \in {REGISTRY[i] : i \in DOMAIN REGISTRY}) =>
          LET ex == fb.exercise
              rules == ex.feedback
          IN  /\ fb.rule = IF fb.angle < ex.down_max THEN rules[1]
                           ELSE IF fb.angle < ex.up_min THEN rules[2]
                           ELSE IF fb.angle < 180 THEN rules[3]
                           ELSE None
              /\ \A order \in Permutations(1..3) :
                    GetFeedback([ex EXCEPT !.feedback = [k \in 1..3 |-> rules[order[k]]]],
                                fb.angle) = fb.rule

\* get_feedback(180) of the Tricep Extension has returned None.
C35_Witness ==
    /\ fb.called
    /\ fb.exercise = REGISTRY[5]
    /\ fb.angle = 180
    /\ fb.rule = None

----------------------------------------------------------------------------
(* The timestamps of a worker. time.time() is the system clock: it runs on  *)
(* between two readings, and it can be set back (by the user, by a time     *)
(* service) at any moment.                                                  *)

OnlyClock ==
    UNCHANGED <<counterVars, unitVars, pipeVars, threadVars, windowVars, registryVars,
                ctorVars, geometryVars>>

\* start_time = time.time(), before the loop
LoopStart ==
    /\ clock.at = "unstarted"
    /\ clock' = [clock EXCEPT !.at = "loop", !.start = clock.now]
    /\ OnlyClock

\* One pass of the loop up to the detect call: reading and resizing the
\* frame takes a millisecond or more, then ts_ms is computed and passed on.
FrameTimestamp ==
    /\ clock.at = "loop"
    /\ Len(clock.ts) < MaxFrames + 1
    /\ \E d \in TicksPerMs..(TicksPerMs + 1) :
          /\ clock.now + d <= MaxClock
          /\ clock' = [clock EXCEPT !.now = @ + d,
                                    !.ts = Append(@, TimestampMs(clock.now + d, clock.start))]
    /\ OnlyClock

\* The system clock is set back.
ClockSetBack ==
    /\ \E now \in 0..(clock.now - 1) : clock' = [clock EXCEPT !.now = now]
    /\ OnlyClock

InitClock ==
    CounterIdle /\ UnitIdle /\ PipeIdle /\ ThreadInit /\ WindowInit /\ RegistryInit /\ CtorIdle
    /\ GeometryIdle
    /\ \E now \in 0..TicksPerMs :
          clock = [now |-> now, at |-> "unstarted", start |-> 0, ts |-> <<>>]

NextClock == LoopStart \/ FrameTimestamp \/ ClockSetBack

SpecClock == InitClock /\ [][NextClock]_vars

\* C31: the ts_ms a worker passes to its detect calls are 0 or more, and each
\* is greater than the one of the call before.
C31_TimestampsIncrease ==
    \A i \in 1..Len(clock.ts) :
        /\ clock.ts[i] >= 0
        /\ i > 1 => clock.ts[i] > clock.ts[i - 1]

----------------------------------------------------------------------------
(* ui/main_window.py: what MainWindow records as selected and what its     *)
(* CameraThread was given. Here ui has also _current_monitor,               *)
(* _current_ex_idx and ultralytics (whether the package is installed), a    *)
(* thread has its monitor_index, the id of its _exercise and of the         *)
(* exercise of its _counter, and frames: for every frame it processed, the  *)
(* exercise it used and the exercise the window had selected. _thread = 0   *)
(* stands for None. The handlers run on the main thread one at a time; the  *)
(* worker runs beside them.                                                 *)

Monitors == {1, 2}

\* CameraThread(backend, source, monitor_index, parent=self) and start():
\* _exercise = REGISTRY[0], _counter = RepCounter(REGISTRY[0])
StartedThread(backend, source, monitor_index) ==
    [backend |-> backend, source |-> source, monitor_index |-> monitor_index,
     _running |-> TRUE, worker |-> "loop", _exercise |-> 0, counter |-> 0, frames |-> {}]

\* _restart_thread() up to self._thread.start() in _start_camera, from the
\* window u: the worker is stopped and waited for, self._thread = None, and
\* the CameraThread is constructed from the current selections. When
\* create_detector raises, the exception leaves the slot with self._thread
\* None; PyQt then ends the process unless an excepthook is installed.
Restarted(u, ths, cur) ==
    LET stopped == [t \in DOMAIN ths |->
                      IF t = cur THEN [ths[t] EXCEPT !._running = FALSE, !.worker = "finished"]
                      ELSE ths[t]]
    IN  IF create_detector(u._current_backend, u.ultralytics) \in {"PoseDetector", "YOLODetector"}
          THEN {[ui |-> [u EXCEPT !.pc = "started"],
                 threads |-> Append(stopped, StartedThread(u._current_backend, u._current_source,
                                                           u._current_monitor)),
                 _thread |-> Len(ths) + 1]}
          ELSE {[ui |-> [u EXCEPT !.pc = after], threads |-> stopped, _thread |-> 0] :
                   after \in {"idle", "aborted"}}

OnlySelect ==
    /\ UNCHANGED <<eventQueue, delivered>>
    /\ OnlyWindow

\* The last statement of _start_camera: self._on_exercise_selected(self._current_ex_idx)
FinishStart ==
    /\ ui.pc = "started"
    /\ ui' = [ui EXCEPT !.pc = "idle"]
    /\ threads' = [threads EXCEPT ![_thread]._exercise = ui._current_ex_idx,
                                  ![_thread].counter = ui._current_ex_idx]
    /\ UNCHANGED _thread
    /\ OnlySelect

\* _on_exercise_selected(idx), from an exercise button
ExerciseSelected ==
    /\ ui.pc = "idle"
    /\ \E idx \in ThreadExercises :
          /\ ui' = [ui EXCEPT !._current_ex_idx = idx]
          /\ threads' = IF _thread /= 0
                          THEN [threads EXCEPT ![_thread]._exercise = idx, ![_thread].counter = idx]
                          ELSE threads
    /\ UNCHANGED _thread
    /\ OnlySelect

\* _on_backend_changed(backend)
BackendChanged ==
    /\ ui.pc = "idle"
    /\ Len(threads) < MaxThreads
    /\ \E backend \in Backends :
          /\ backend /= ui._current_backend
          /\ \E r \in Restarted([ui EXCEPT !._current_backend = backend], threads, _thread) :
                ui' = r.ui /\ threads' = r.threads /\ _thread' = r._thread
    /\ OnlySelect

\* _on_source_changed(source), from the camera button or the file dialog
SourceChanged ==
    /\ ui.pc = "idle"
    /\ Len(threads) < MaxThreads
    /\ \E source \in Sources \ {"screen"} :
          /\ source /= ui._current_source
          /\ \E r \in Restarted([ui EXCEPT !._current_source = source], threads, _thread) :
                ui' = r.ui /\ threads' = r.threads /\ _thread' = r._thread
    /\ OnlySelect

\* _on_source_screen_clicked(): the user confirms monitor m in the picker (or
\* there is one monitor, m = 1): self._current_monitor = m, then
\* _on_source_changed(SOURCE_SCREEN), which returns at once when the source
\* is the screen already.
ScreenClicked ==
    /\ ui.pc = "idle"
    /\ Len(threads) < MaxThreads
    /\ \E m \in Monitors :
          LET u == [ui EXCEPT !._current_monitor = m]
          IN  IF ui._current_source = "screen"
                THEN ui' = u /\ UNCHANGED <<threads, _thread>>
                ELSE \E r \in Restarted([u EXCEPT !._current_source = "screen"], threads, _thread) :
                        ui' = r.ui /\ threads' = r.threads /\ _thread' = r._thread
    /\ OnlySelect

\* A running worker processes a frame: ex = self._exercise, self._counter.update
WorkerFrame ==
    /\ ui.pc /= "aborted"
    /\ \E t \in DOMAIN threads :
          /\ threads[t].worker = "loop"
          /\ threads[t]._running
          /\ threads' = [threads EXCEPT ![t].frames =
                            @ \cup {[ex |-> threads[t]._exercise, counter |-> threads[t].counter,
                                     selected |-> ui._current_ex_idx]}]
    /\ UNCHANGED <<ui, _thread>>
    /\ OnlySelect

\* MainWindow.__init__: the defaults, then _start_camera() to its end.
InitSelect ==
    /\ CounterIdle /\ UnitIdle /\ PipeIdle /\ ThreadInit /\ RegistryInit /\ CtorIdle
    /\ GeometryIdle /\ ClockIdle
    /\ \E ultralytics \in BOOLEAN :
          ui = [pc |-> "idle", _current_backend |-> "mediapipe", _current_source |-> "camera",
                _current_monitor |-> 1, _current_ex_idx |-> 0, ultralytics |-> ultralytics]
    /\ threads = << StartedThread("mediapipe", "camera", 1) >>
    /\ _thread = 1
    /\ eventQueue = <<>>
    /\ delivered = None

NextSelect ==
    FinishStart \/ ExerciseSelected \/ BackendChanged \/ SourceChanged \/ ScreenClicked
      \/ WorkerFrame

SpecSelect == InitSelect /\ [][NextSelect]_vars

\* C32: every frame a worker processes is processed with the exercise selected
\* in the window, and updates a counter of that exercise: a worker started by a
\* restart while exercise k /= 0 is selected never uses exercise 0.
C32_FramesUseTheSelectedExercise ==
    \A t \in DOMAIN threads : \A f \in threads[t].frames :
        f.ex = f.selected /\ f.counter = f.selected

\* C33: a running worker is the window's _thread and has the backend, the
\* source and the monitor index the window records; and the window, when no
\* handler is running, has a worker for the backend and source it records.
C33_WorkerMatchesTheSelections ==
    /\ \A t \in DOMAIN threads :
          (threads[t].worker = "loop" /\ ui.pc /= "aborted") =>
              /\ t = _thread
              /\ threads[t].backend = ui._current_backend
              /\ threads[t].source = ui._current_source
              /\ threads[t].monitor_index = ui._current_monitor
    /\ ui.pc = "idle" => _thread /= 0

====
